---- MODULE Spec2Model ----
(***************************************************************************)
(* GoatSync sync engine: the item/revision write paths (batch and          *)
(* transaction), the stoken sequence, membership transactions and the      *)
(* stoken-anchored listing queries, modelled from the Go sources.          *)
(*                                                                         *)
(* The relational store is modelled by its committed rows.  Every GORM     *)
(* call outside an explicit db.Transaction is one auto-committed           *)
(* statement, hence one step; the statements of a db.Transaction are       *)
(* steps whose effects become visible in the step that commits.  The       *)
(* schema is the one AutoMigrate derives from the gorm struct tags: the    *)
(* only uniqueness constraints are the ones tagged unique/uniqueIndex.     *)
(***************************************************************************)
EXTENDS Integers, Sequences, FiniteSets, TLC

---------------------------------------------------------------------------
(* Bounds of the model                                                     *)

MaxReqs   == 2      \* write/membership requests started in one behaviour
MaxWrites == 2      \* item writes carried by the requests of one behaviour
MaxCalls  == 3      \* calls of one listing session
MaxChunkReqs == 3   \* requests of one behaviour of the chunk store
MaxAuthReqs == 2    \* requests of one behaviour of the authentication API
MaxTickets == 1     \* subscription tickets issued in one behaviour
MaxFrames == 2      \* frames written to one WebSocket connection
MaxPubs == 1        \* messages published on the broker in one behaviour

(* Program constants                                                       *)

AccessLevelReadOnly  == 0
AccessLevelAdmin     == 1
AccessLevelReadWrite == 2
DefaultLimit         == 50
ChallengeValidSeconds == 300
TicketTTL            == 10

---------------------------------------------------------------------------
(* Input domains                                                           *)

Procs     == {"p1", "p2"}
Users     == {1, 2, 3}
ColUIDs   == {"c1", "c2", "c3"}
ItemUIDs  == {"X", "Y"}
Versions  == {2, 3}
NewRevUIDs == {"r1", "r2"}
NoEtag    == "nil"
Etags     == {NoEtag, "r0", "r1"}
NoStoken  == <<"st", 0>>
MainItemUIDs == {"M"}
NewLevels == {AccessLevelReadOnly, AccessLevelReadWrite}
ChunkUIDs == {<<"a", "b", "c">>, <<"a", "b", "d">>}
Bodies    == {<<>>, <<1>>, <<2>>}


NoWrite   == [uid |-> "", version |-> 0, etag |-> NoEtag, cuid |-> ""]
NoFirst   == [uid |-> "", etag |-> NoEtag]

VARIABLES
    revisionRepo,   \* ItemService.revisionRepo: "nil" or "gorm"
    collections,    \* django_collection rows
    stokenSeq,      \* last id handed out by the django_stoken sequence
    stokens,        \* ids of the committed django_stoken rows
    items,          \* django_collectionitem rows
    revisions,      \* django_collectionitemrevision rows
    members,        \* django_collectionmember rows
    removed,        \* django_collectionmemberremoved rows
    invitations,    \* django_collectioninvitation rows
    memberSeq,      \* last id handed out for a django_collectionmember row
    procs,          \* per request goroutine: position and locals
    chunks,         \* django_collectionitemchunk rows
    files,          \* the chunk files under FileStorage.basePath
    reqSeq,         \* requests started so far
    wrSeq,          \* item writes taken from request bodies so far
    pg,             \* the client's listing session: last response and history
    cfg,            \* config.Config as read by the AuthService
    users,          \* myauth_user rows joined with their django_userinfo row
    userSeq,        \* last id handed out by the myauth_user sequence
    tokens,         \* django_authtoken_authtoken rows
    tokenSeq,       \* number of keys generateTokenKey has handed out
    now,            \* time.Now().Unix()
    loggedOut,      \* history: the keys with which a logout has succeeded
    redis,          \* WebSocketHandler.redis: "nil" or "active"
    rkeys,          \* the ws:ticket:* keys of the Redis server
    tickets,        \* WebSocketHandler.tickets, the process-local map
    ticketSeq,      \* number of ids generateTicketID has handed out
    issued,         \* history: the tickets handed to clients
    conns,          \* per stream request: position, ticket and connection
    pubSeq          \* messages published on the broker so far

vars == <<revisionRepo, collections, stokenSeq, stokens, items, revisions,
          members, removed, invitations, memberSeq, chunks, files, procs,
          reqSeq, wrSeq, pg, cfg, users, userSeq, tokens, tokenSeq, now,
          loggedOut, redis, rkeys, tickets, ticketSeq, issued, conns, pubSeq>>

wsvars == <<redis, rkeys, tickets, ticketSeq, issued, conns, pubSeq>>

chunkvars == <<chunks, files>>

authvars == <<cfg, users, userSeq, tokens, tokenSeq, now, loggedOut>>

dbvars == <<collections, stokenSeq, stokens, items, revisions, members,
            removed, invitations, memberSeq>>

---------------------------------------------------------------------------
(* Helpers                                                                 *)

Max(S) == IF S = {} THEN 0 ELSE CHOOSE x \in S : \A y \in S : y <= x

Min(S) == CHOOSE x \in S : \A y \in S : x <= y

RECURSIVE SortAsc(_)
SortAsc(S) == IF S = {} THEN <<>> ELSE <<Min(S)>> \o SortAsc(S \ {Min(S)})

Take(s, n) == IF Len(s) <= n THEN s ELSE SubSeq(s, 1, n)

Range(s) == {s[i] : i \in 1..Len(s)}

CeilDiv(a, b) == (a + b - 1) \div b

---------------------------------------------------------------------------
(* Stoken: the wire form is the random uid generated in BeforeCreate, the  *)
(* internal form the sequence id.                                          *)

StokenUID(id) == <<"st", id>>

\* stokenRepository.GetByUID: empty uid means "from the beginning" (0),
\* an unknown uid is ErrBadStoken (-1), otherwise the row's id.
StokenGetByUID(uid) ==
    IF uid = NoStoken THEN 0
    ELSE IF \E id \in stokens : StokenUID(id) = uid
         THEN CHOOSE id \in stokens : StokenUID(id) = uid
         ELSE -1

\* a sequence that hands out its last id again
StaleStokenID(seq) == seq

\* the id the django_stoken sequence hands to the next inserted row
NextStokenID(seq) == seq + 1

---------------------------------------------------------------------------
(* Reads                                                                   *)

\* collectionRepository.GetByUID: the collection id, 0 when not found
CollectionGetByUID(uid) ==
    IF \E c \in collections : c.uid = uid
    THEN (CHOOSE c \in collections : c.uid = uid).id
    ELSE 0

\* memberRepository.GetByUserAndCollection: First() orders by primary key
MemberRows(user, col) == {m \in members : m.user = user /\ m.col = col}

GetByUserAndCollection(user, col) ==
    CHOOSE m \in MemberRows(user, col) :
        \A n \in MemberRows(user, col) : m.id <= n.id

\* a write check that lets every member through
AnyMemberWrites(m) == TRUE

CanWrite(m) ==
    m.level = AccessLevelAdmin \/ m.level = AccessLevelReadWrite

IsAdmin(m) == m.level = AccessLevelAdmin

\* itemRepository.GetByUID over a given table: the id of the first row by
\* primary key with that (collection, uid), 0 when there is none
ItemGetByUID(its, col, uid) ==
    LET rows == {i \in its : i.col = col /\ i.uid = uid}
    IN  IF rows = {} THEN 0 ELSE Min({i.id : i \in rows})

ItemRow(its, id) == CHOOSE i \in its : i.id = id

\* the Revisions preloaded with "current = true" for an item
CurrentRevisions(revs, itemId) ==
    {r \in revs : r.item = itemId /\ r.current}

\* getItemEtag: the uid of a preloaded current revision, "" when none.  The
\* preload has no ORDER BY, so with several current rows any may come first.
getItemEtag(revs, itemId) ==
    IF CurrentRevisions(revs, itemId) = {} THEN {""}
    ELSE {r.uid : r \in CurrentRevisions(revs, itemId)}

---------------------------------------------------------------------------
(* Initial state: the services as wired by NewItemService, over tables     *)
(* that already hold two shared collections.                               *)

NoUser ==
    [id |-> 0, username |-> <<>>, email |-> <<>>, firstName |-> <<>>,
     loginPubkey |-> 0, encryptedContent |-> "", salt |-> 0]

\* no login, changePassword or signup body: a body of zero values
NoRequest ==
    LET response ==
            [username |-> <<>>,
             challenge |-> [key |-> <<>>,
                            plain |-> [timestamp |-> [type |-> "", n |-> 0],
                                       userId |-> [type |-> "", n |-> 0]]],
             host |-> <<>>, action |-> "", loginPubkey |-> 0,
             encryptedContent |-> ""]
    IN  [response |-> response, signature |-> [by |-> 0, msg |-> response],
         email |-> <<>>, salt |-> 0, host |-> <<>>, now |-> 0]

IdleProc ==
    [pc |-> "idle", kind |-> "none", user |-> 0, col |-> 0, nw |-> 0,
     nd |-> 0, w |-> NoWrite, item |-> 0, stk |-> 0, base |-> 0,
     targets |-> {}, res |-> "", first |-> NoFirst, inv |-> 0,
     member |-> 0, deps |-> NoStoken, newCol |-> "", username |-> 0,
     newAccessLevel |-> 0, byOwner |-> FALSE, chunkUID |-> <<>>,
     data |-> <<>>, out |-> <<>>, hdr |-> <<>>, row |-> NoUser,
     req |-> NoRequest, clash |-> FALSE, limit |-> 0, iterator |-> "",
     fin |-> FALSE, seen |-> <<>>]

IdlePage ==
    [open |-> FALSE, pc |-> "idle", kind |-> "none", user |-> 0, col |-> "",
     types |-> {}, limit |-> 0, since |-> NoStoken, calls |-> 0,
     total |-> 0, quiet |-> TRUE, emitted |-> {}, rows |-> <<>>,
     before |-> {}, stoken |-> NoStoken, done |-> FALSE,
     removedMemberships |-> {}, err |-> "", start |-> NoStoken]

\* the stream requests of one behaviour; a connection's locals
Streams == {"s1", "s2"}

IdleConn ==
    [pc |-> "none", ticket |-> 0, val |-> 0, valid |-> FALSE, UserID |-> 0,
     CollectionID |-> 0, sub |-> <<>>, msgChan |-> <<>>, fwd |-> "off",
     cur |-> [type |-> "", data |-> 0], fcur |-> 0, frames |-> <<>>,
     due |-> {}]

InitCollections ==
    {[id |-> 1, uid |-> "c1", owner |-> 1, mainItem |-> 0],
     [id |-> 2, uid |-> "c2", owner |-> 4, mainItem |-> 0]}

InitMembers ==
    {[id |-> 1, user |-> 1, col |-> 1, level |-> AccessLevelAdmin,
      ctype |-> "t1", stoken |-> 1],
     [id |-> 2, user |-> 2, col |-> 1, level |-> AccessLevelReadOnly,
      ctype |-> "t1", stoken |-> 2],
     [id |-> 3, user |-> 4, col |-> 2, level |-> AccessLevelAdmin,
      ctype |-> "", stoken |-> 3],
     [id |-> 4, user |-> 1, col |-> 2, level |-> AccessLevelReadOnly,
      ctype |-> "", stoken |-> 4],
     [id |-> 5, user |-> 2, col |-> 2, level |-> AccessLevelReadOnly,
      ctype |-> "t1", stoken |-> 5]}

InitItems ==
    {[id |-> 1, uid |-> "X", col |-> 1, version |-> 1],
     [id |-> 2, uid |-> "X", col |-> 2, version |-> 1],
     [id |-> 3, uid |-> "Y", col |-> 2, version |-> 1]}

InitRevisions ==
    {[id |-> 1, uid |-> "r0", item |-> 1, stoken |-> 6, current |-> TRUE,
      version |-> 1],
     [id |-> 2, uid |-> "r8", item |-> 2, stoken |-> 7, current |-> TRUE,
      version |-> 1],
     [id |-> 3, uid |-> "r9", item |-> 3, stoken |-> 8, current |-> TRUE,
      version |-> 1]}

InitInvitations ==
    {[id |-> 1, uid |-> "i1", user |-> 3, fromMember |-> 3,
      level |-> AccessLevelReadWrite]}

\* one chunk of collection c2 uploaded earlier; body is no column, it
\* records the bytes of the upload that inserted the row
InitChunks ==
    {[id |-> 1, uid |-> <<"a", "b", "c">>, col |-> 2,
      file |-> <<4, "c2", <<"a", "b">>, <<"c">> >>, body |-> <<1>>]}

InitFiles ==
    {[path |-> <<4, "c2", <<"a", "b">>, <<"c">> >>, data |-> <<1>>]}

InitUsers ==
    {[id |-> 1, username |-> <<"a">>, email |-> <<"a">>,
      firstName |-> <<"a">>, loginPubkey |-> 1, encryptedContent |-> "e1",
      salt |-> 1],
     [id |-> 2, username |-> <<"b">>, email |-> <<"b">>,
      firstName |-> <<"B">>, loginPubkey |-> 2, encryptedContent |-> "e1",
      salt |-> 1]}

\* the state after construction, with DEBUG set or not
InitTables ==
    /\ cfg \in [Debug : BOOLEAN]
    /\ revisionRepo \in {"nil", "gorm"}
    /\ collections = InitCollections
    /\ stokenSeq = 8
    /\ stokens = 1..8
    /\ items = InitItems
    /\ revisions = InitRevisions
    /\ members = InitMembers
    /\ removed = {}
    /\ invitations = InitInvitations
    /\ memberSeq = 5
    /\ chunks = InitChunks
    /\ files = InitFiles
    /\ procs = [p \in Procs |-> IdleProc]
    /\ reqSeq = 0
    /\ wrSeq = 0
    /\ pg = IdlePage
    /\ users = InitUsers
    /\ userSeq = 2
    /\ tokens = {[key |-> <<"k", 1>>, user |-> 1],
                 [key |-> <<"k", 2>>, user |-> 2]}
    /\ tokenSeq = 2
    /\ now = 0
    /\ loggedOut = {}
    /\ rkeys = {}
    /\ tickets = {}
    /\ ticketSeq = 0
    /\ issued = {}
    /\ conns = [s \in Streams |-> IdleConn]
    /\ pubSeq = 0

\* REDIS_URL is empty: redisclient.New returns a nil client
InitAuth == InitTables /\ redis = "nil"

\* the server as deployed: DEBUG defaults to false
Init == InitAuth /\ ~cfg.Debug

---------------------------------------------------------------------------
(* Write paths: ItemService.BatchItems / TransactionItems                  *)

\* a committed write makes a quiet listing session no longer quiet
Noisy == [pg EXCEPT !.quiet = FALSE]

\* the locals of a write go out of scope when the write is over
EndWrite(p) ==
    [procs EXCEPT ![p].w = NoWrite, ![p].item = 0, ![p].stk = 0,
                  ![p].base = 0, ![p].targets = {}]

\* the request returns: only its kind, its result and what it left behind
\* are kept
Finish(p, code) ==
    [EndWrite(p) EXCEPT ![p].pc = "done", ![p].res = code, ![p].user = 0,
                        ![p].col = 0, ![p].inv = 0, ![p].member = 0,
                        ![p].deps = NoStoken, ![p].newCol = "",
                        ![p].chunkUID = <<>>, ![p].data = <<>>,
                        ![p].hdr = <<>>, ![p].row = NoUser,
                        ![p].req = NoRequest, ![p].limit = 0,
                        ![p].iterator = "", ![p].fin = FALSE,
                        ![p].seen = <<>>]

Refuse(kind, code) ==
    [IdleProc EXCEPT !.kind = kind, !.pc = "done", !.res = code]

\* a refused request whose caller and collection stay on record
RefuseAs(kind, code, user, col) ==
    [Refuse(kind, code) EXCEPT !.user = user, !.col = col]

\* The head of BatchItems and TransactionItems: collection lookup, member
\* lookup and the CanWrite check.  deps is the request's Deps.Stoken, which
\* neither function reads.
StartWrite(p, kind, user, cuid, deps) ==
    /\ procs[p].pc \in {"idle", "done"}
    /\ reqSeq < MaxReqs
    /\ reqSeq' = reqSeq + 1
    /\ LET col  == CollectionGetByUID(cuid)
           proc == [IdleProc EXCEPT !.kind = kind, !.user = user, !.col = col,
                                    !.deps = deps]
       IN  procs' = [procs EXCEPT ![p] =
             IF col = 0 \/ MemberRows(user, col) = {}
             THEN RefuseAs(kind, "not_member", user, col)
             ELSE IF ~CanWrite(GetByUserAndCollection(user, col))
             THEN RefuseAs(kind, "no_write_access", user, col)
             ELSE [proc EXCEPT !.pc = "next"]]
    /\ UNCHANGED <<wsvars, revisionRepo, authvars, chunkvars, dbvars, wrSeq, pg>>

BatchItems(p) ==
    \E user \in Users, cuid \in ColUIDs :
        StartWrite(p, "batch", user, cuid, NoStoken)

\* the deps.stoken of a transaction request; NoStoken: no deps
DepsUIDs == {NoStoken, StokenUID(5)}

TransactionItems(p) ==
    \E user \in Users, cuid \in ColUIDs, deps \in DepsUIDs :
        StartWrite(p, "transaction", user, cuid, deps)

\* `for _, itemIn := range req.Items`: the loop takes the next write of the
\* request, or falls out of the loop and returns nil.  The clients write
\* content r1 with item version 2 and content r2 with item version 3.
NextItem(p) ==
    /\ procs[p].pc = "next"
    /\ wrSeq < MaxWrites
    /\ wrSeq' = wrSeq + 1
    /\ \E uid \in ItemUIDs, version \in Versions, etag \in Etags,
          cuid \in NewRevUIDs :
        LET w    == [uid |-> uid, version |-> version, etag |-> etag,
                     cuid |-> cuid]
            txn  == procs[p].kind = "transaction" /\ etag # NoEtag
            id   == ItemGetByUID(items, procs[p].col, uid)
        IN  /\ (procs[p].kind = "batch" => etag = NoEtag)
            /\ <<cuid, version>> \in {<<"r1", 2>>, <<"r2", 3>>}
            /\ procs' = [procs EXCEPT
                 ![p].pc = IF txn THEN "etag" ELSE "get",
                 ![p].nw = @ + 1,
                 ![p].w = w,
                 ![p].first = IF /\ procs[p].nw = 0 /\ txn /\ id # 0
                                 /\ getItemEtag(revisions, id) = {etag}
                              THEN [uid |-> uid, etag |-> etag]
                              ELSE @]
    /\ UNCHANGED <<wsvars, revisionRepo, authvars, chunkvars, dbvars, reqSeq, pg>>

ReturnNil(p) ==
    /\ procs[p].pc = "next"
    /\ procs' = Finish(p, "ok")
    /\ UNCHANGED <<wsvars, revisionRepo, authvars, chunkvars, dbvars, reqSeq, wrSeq, pg>>

\* TransactionItems, `if itemIn.Etag != nil`: the etag validation
ValidateEtag(p) ==
    /\ procs[p].pc = "etag"
    /\ LET id == ItemGetByUID(items, procs[p].col, procs[p].w.uid)
       IN  IF id = 0
           THEN procs' = [procs EXCEPT ![p].pc = "get", ![p].w.etag = NoEtag]
           ELSE \E currentEtag \in getItemEtag(revisions, id) :
                  IF currentEtag # procs[p].w.etag
                  THEN procs' = Finish(p, "wrong_etag")
                  ELSE procs' = [procs EXCEPT ![p].pc = "get",
                                              ![p].w.etag = NoEtag]
    /\ UNCHANGED <<wsvars, revisionRepo, authvars, chunkvars, dbvars, reqSeq, wrSeq, pg>>

\* processItemUpdate, first statement: s.itemRepo.GetByUID
GetItem(p) ==
    /\ procs[p].pc = "get"
    /\ procs' = [procs EXCEPT
         ![p].pc = "save",
         ![p].item = ItemGetByUID(items, procs[p].col, procs[p].w.uid)]
    /\ UNCHANGED <<wsvars, revisionRepo, authvars, chunkvars, dbvars, reqSeq, wrSeq, pg>>

\* the item rows after itemRepo.Create (local item nil) or itemRepo.Update
SaveItem(its, local, col, w) ==
    IF local = 0
    THEN its \cup {[id |-> Cardinality(its) + 1, uid |-> w.uid, col |-> col,
                    version |-> w.version]}
    ELSE {IF i.id = local THEN [i EXCEPT !.version = w.version] ELSE i
          : i \in its}

\* processItemUpdate: create the item or update its version; with a nil
\* revisionRepo this is the whole write
CreateOrUpdateItem(p) ==
    /\ procs[p].pc = "save"
    /\ items' = SaveItem(items, procs[p].item, procs[p].col, procs[p].w)
    /\ procs' = IF revisionRepo = "nil"
                THEN [EndWrite(p) EXCEPT ![p].pc = "next", ![p].nd = @ + 1]
                ELSE [procs EXCEPT
                        ![p].pc = "stok",
                        ![p].item = IF @ = 0 THEN Cardinality(items) + 1
                                    ELSE @]
    /\ pg' = Noisy
    /\ UNCHANGED <<wsvars, revisionRepo, authvars, chunkvars, collections, stokenSeq, stokens, revisions,
                   members, removed, invitations, memberSeq, reqSeq, wrSeq>>

---------------------------------------------------------------------------
(* revisionRepository.Create: one database transaction                     *)

\* tx.Create(stoken): the sequence hands out the id; the row is not yet
\* visible to other connections
RevisionCreateStoken(p) ==
    /\ procs[p].pc = "stok"
    /\ stokenSeq' = NextStokenID(stokenSeq)
    /\ procs' = [procs EXCEPT ![p].pc = "upd",
                              ![p].stk = NextStokenID(stokenSeq),
                              ![p].base = Max(stokens)]
    /\ UNCHANGED <<wsvars, revisionRepo, authvars, chunkvars, collections, stokens, items, revisions,
                   members, removed, invitations, memberSeq, reqSeq, wrSeq, pg>>

\* UPDATE ... SET current = NULL WHERE item_id = ? AND current = true.  The
\* statement's snapshot fixes the rows it sees as current.  A row that an
\* open transaction has already updated is locked: the statement waits for
\* that transaction to end and then re-checks the WHERE clause on the locked
\* rows only (READ COMMITTED); rows inserted meanwhile are not in its
\* snapshot.
RevisionMarkPrevious(p) ==
    /\ procs[p].pc \in {"upd", "wait"}
    /\ LET snap   == IF procs[p].pc = "upd"
                     THEN {r.id : r \in CurrentRevisions(revisions,
                                                         procs[p].item)}
                     ELSE procs[p].targets
           locked == \E q \in Procs \ {p} :
                        /\ procs[q].pc = "ins"
                        /\ procs[q].targets \cap snap # {}
       IN  IF locked
           THEN /\ procs[p].pc = "upd"
                /\ procs' = [procs EXCEPT ![p].pc = "wait",
                                          ![p].targets = snap]
           ELSE procs' = [procs EXCEPT
                  ![p].pc = "ins",
                  ![p].targets = {r.id : r \in {x \in revisions :
                                      x.id \in snap /\ x.current}}]
    /\ UNCHANGED <<wsvars, revisionRepo, authvars, chunkvars, dbvars, reqSeq, wrSeq, pg>>

\* the revision rows after the transaction commits; version is no column,
\* it records the item version carried by the write that made the row
RevisionCommit(revs, targets, itemId, w, stk) ==
    {IF r.id \in targets THEN [r EXCEPT !.current = FALSE] ELSE r : r \in revs}
    \cup {[id |-> Cardinality(revs) + 1, uid |-> w.cuid, item |-> itemId,
           stoken |-> stk, current |-> TRUE, version |-> w.version]}

\* tx.Create(revision) and commit; a duplicate uid violates the unique
\* index, the transaction rolls back and processItemUpdate returns the error
RevisionInsert(p) ==
    /\ procs[p].pc = "ins"
    /\ IF \E r \in revisions : r.uid = procs[p].w.cuid
       THEN /\ procs' = Finish(p, "db_error")
            /\ UNCHANGED <<revisions, stokens, pg>>
       ELSE /\ revisions' = RevisionCommit(revisions, procs[p].targets,
                                procs[p].item, procs[p].w, procs[p].stk)
            /\ stokens' = stokens \cup {procs[p].stk}
            /\ procs' = [EndWrite(p) EXCEPT ![p].pc = "next", ![p].nd = @ + 1]
            /\ pg' = Noisy
    /\ UNCHANGED <<wsvars, revisionRepo, authvars, chunkvars, collections, stokenSeq, items, members,
                   removed, invitations, memberSeq, reqSeq, wrSeq>>

---------------------------------------------------------------------------
(* Membership: InvitationService.AcceptInvitation, LeaveCollection         *)

InvitationUIDs == {"i1"}

\* invitationRepository.GetByUID: the invitation id, 0 when not found
InvitationGetByUID(uid) ==
    IF \E i \in invitations : i.uid = uid
    THEN Min({i.id : i \in {j \in invitations : j.uid = uid}})
    ELSE 0

InvitationRow(id) == CHOOSE i \in invitations : i.id = id

MemberRow(id) == CHOOSE m \in members : m.id = id

\* AcceptInvitation: look the invitation up and check the invitee
AcceptInvitation(p) ==
    /\ procs[p].pc \in {"idle", "done"}
    /\ reqSeq < MaxReqs
    /\ reqSeq' = reqSeq + 1
    /\ \E uid \in InvitationUIDs, user \in Users :
        LET inv  == InvitationGetByUID(uid)
            proc == [IdleProc EXCEPT !.kind = "accept", !.user = user]
        IN  procs' = [procs EXCEPT ![p] =
              IF inv = 0 \/ InvitationRow(inv).user # user
              THEN Refuse("accept", "not_member")
              ELSE [proc EXCEPT
                      !.pc = "mstok", !.inv = inv,
                      !.col = MemberRow(InvitationRow(inv).fromMember).col,
                      !.member = InvitationRow(inv).level]]
    /\ UNCHANGED <<wsvars, revisionRepo, authvars, chunkvars, dbvars, wrSeq, pg>>

\* memberRepository.Create, tx.Create(stoken)
MemberCreateStoken(p) ==
    /\ procs[p].pc = "mstok"
    /\ stokenSeq' = NextStokenID(stokenSeq)
    /\ procs' = [procs EXCEPT ![p].pc = "mins",
                              ![p].stk = NextStokenID(stokenSeq),
                              ![p].base = Max(stokens)]
    /\ UNCHANGED <<wsvars, revisionRepo, authvars, chunkvars, collections, stokens, items, revisions,
                   members, removed, invitations, memberSeq, reqSeq, wrSeq, pg>>

\* memberRepository.Create, tx.Create(member) and commit
MemberInsert(p) ==
    /\ procs[p].pc = "mins"
    /\ memberSeq' = memberSeq + 1
    /\ members' = members \cup
         {[id |-> memberSeq + 1, user |-> procs[p].user, col |-> procs[p].col,
           level |-> procs[p].member, ctype |-> "",
           stoken |-> procs[p].stk]}
    /\ stokens' = stokens \cup {procs[p].stk}
    /\ procs' = [procs EXCEPT ![p].pc = "idel", ![p].member = 0,
                              ![p].stk = 0, ![p].base = 0]
    /\ pg' = Noisy
    /\ UNCHANGED <<wsvars, revisionRepo, authvars, chunkvars, collections, stokenSeq, items, revisions,
                   removed, invitations, reqSeq, wrSeq>>

\* AcceptInvitation, last statement: invitationRepo.Delete(inv.ID)
InvitationDelete(p) ==
    /\ procs[p].pc = "idel"
    /\ invitations' = {i \in invitations : i.id # procs[p].inv}
    /\ procs' = Finish(p, "ok")
    /\ UNCHANGED <<wsvars, revisionRepo, authvars, chunkvars, collections, stokenSeq, stokens, items,
                   revisions, members, removed, memberSeq, reqSeq, wrSeq, pg>>

\* LeaveCollection: collection and member lookups, the owner check.
\* byOwner records whether the caller owns the collection it addresses.
LeaveCollection(p) ==
    /\ procs[p].pc \in {"idle", "done"}
    /\ reqSeq < MaxReqs
    /\ reqSeq' = reqSeq + 1
    /\ \E cuid \in ColUIDs, user \in Users :
        LET col  == CollectionGetByUID(cuid)
            own  == \E c \in collections : c.id = col /\ c.owner = user
            proc == [IdleProc EXCEPT !.kind = "leave", !.user = user,
                                     !.col = col, !.byOwner = own]
        IN  procs' = [procs EXCEPT ![p] =
              IF col = 0 \/ MemberRows(user, col) = {}
              THEN [Refuse("leave", "not_member") EXCEPT !.byOwner = own]
              ELSE IF IsAdmin(GetByUserAndCollection(user, col)) /\ own
              THEN [Refuse("leave", "admin_access_required")
                      EXCEPT !.byOwner = own]
              ELSE [proc EXCEPT
                      !.pc = "dstok",
                      !.member = GetByUserAndCollection(user, col).id]]
    /\ UNCHANGED <<wsvars, revisionRepo, authvars, chunkvars, dbvars, wrSeq, pg>>

\* memberRepository.Delete: tx.First(&member, id), then tx.Create(stoken)
MemberDeleteStoken(p) ==
    /\ procs[p].pc = "dstok"
    /\ IF \E m \in members : m.id = procs[p].member
       THEN /\ stokenSeq' = NextStokenID(stokenSeq)
            /\ procs' = [procs EXCEPT ![p].pc = "ddel",
                                      ![p].stk = NextStokenID(stokenSeq),
                                      ![p].base = Max(stokens)]
       ELSE /\ procs' = Finish(p, "db_error")
            /\ UNCHANGED stokenSeq
    /\ UNCHANGED <<wsvars, revisionRepo, authvars, chunkvars, collections, stokens, items, revisions,
                   members, removed, invitations, memberSeq, reqSeq, wrSeq, pg>>

\* memberRepository.Delete: tx.Create(removed), tx.Delete(&member), commit.
\* The connection is opened with DisableForeignKeyConstraintWhenMigrating,
\* so no foreign key cascades to the invitations the member sent.
MemberDelete(p) ==
    /\ procs[p].pc = "ddel"
    /\ removed' = removed \cup
         {[user |-> procs[p].user, col |-> procs[p].col,
           stoken |-> procs[p].stk]}
    /\ members' = {m \in members : m.id # procs[p].member}
    /\ stokens' = stokens \cup {procs[p].stk}
    /\ procs' = Finish(p, "ok")
    /\ pg' = Noisy
    /\ UNCHANGED <<wsvars, revisionRepo, authvars, chunkvars, collections, stokenSeq, items, revisions,
                   invitations, memberSeq, reqSeq, wrSeq>>

\* The head of UpdateMemberAccess and RemoveMember: collection lookup, the
\* caller's member lookup and the IsAdmin check; "" when the caller passes
AdminCheck(user, col) ==
    IF col = 0 THEN "not_member"
    ELSE IF MemberRows(user, col) = {}
              \/ ~IsAdmin(GetByUserAndCollection(user, col))
    THEN "admin_access_required"
    ELSE ""

\* the request returns at once; an accepted one keeps its arguments
AdminRequest(kind, user, cuid, username, level) ==
    IF AdminCheck(user, CollectionGetByUID(cuid)) # ""
    THEN Refuse(kind, AdminCheck(user, CollectionGetByUID(cuid)))
    ELSE [IdleProc EXCEPT !.kind = kind, !.pc = "done", !.res = "ok",
                          !.col = CollectionGetByUID(cuid),
                          !.username = username, !.newAccessLevel = level]

\* UpdateMemberAccess: after the admin check, `return nil`
UpdateMemberAccess(p) ==
    /\ procs[p].pc \in {"idle", "done"}
    /\ reqSeq < MaxReqs
    /\ reqSeq' = reqSeq + 1
    /\ \E user \in Users, cuid \in ColUIDs, username \in Users,
          level \in NewLevels :
        procs' = [procs EXCEPT ![p] =
                    AdminRequest("update", user, cuid, username, level)]
    /\ UNCHANGED <<wsvars, revisionRepo, authvars, chunkvars, dbvars, wrSeq, pg>>

\* RemoveMember: after the admin check, `return nil`
RemoveMember(p) ==
    /\ procs[p].pc \in {"idle", "done"}
    /\ reqSeq < MaxReqs
    /\ reqSeq' = reqSeq + 1
    /\ \E user \in Users, cuid \in ColUIDs, username \in Users :
        procs' = [procs EXCEPT ![p] =
                    AdminRequest("remove", user, cuid, username, 0)]
    /\ UNCHANGED <<wsvars, revisionRepo, authvars, chunkvars, dbvars, wrSeq, pg>>

---------------------------------------------------------------------------
(* CollectionService.CreateCollection.  The connection is opened with      *)
(* SkipDefaultTransaction, so collectionRepo.Create is two auto-committed  *)
(* statements: the insert of the MainItem association, then the insert of  *)
(* the collection.                                                         *)

\* CreateCollection up to the first statement: the main item is inserted
\* with the zero CollectionID of the struct literal
CreateCollection(p) ==
    /\ procs[p].pc \in {"idle", "done"}
    /\ reqSeq < MaxReqs
    /\ reqSeq' = reqSeq + 1
    /\ \E user \in Users, cuid \in ColUIDs, iuid \in MainItemUIDs,
          version \in Versions :
        /\ items' = items \cup {[id |-> Cardinality(items) + 1, uid |-> iuid,
                                 col |-> 0, version |-> version]}
        /\ procs' = [procs EXCEPT ![p] =
             [IdleProc EXCEPT !.kind = "create", !.pc = "cins",
                              !.user = user, !.newCol = cuid,
                              !.item = Cardinality(items) + 1]]
    /\ UNCHANGED <<wsvars, revisionRepo, authvars, chunkvars, collections, stokenSeq, stokens, revisions,
                   members, removed, invitations, memberSeq, wrSeq, pg>>

\* the insert of the collection row; a taken uid violates the unique index.
\* No member row is created for the owner.
CollectionInsert(p) ==
    /\ procs[p].pc = "cins"
    /\ IF \E c \in collections : c.uid = procs[p].newCol
       THEN /\ procs' = Finish(p, "db_error")
            /\ UNCHANGED collections
       ELSE /\ collections' = collections \cup
                 {[id |-> Cardinality(collections) + 1,
                   uid |-> procs[p].newCol, owner |-> procs[p].user,
                   mainItem |-> procs[p].item]}
            /\ procs' = Finish(p, "ok")
    /\ UNCHANGED <<wsvars, revisionRepo, authvars, chunkvars, stokenSeq, stokens, items, revisions,
                   members, removed, invitations, memberSeq, reqSeq, wrSeq,
                   pg>>

\* memberRepository.GetRemovedMemberships: the user's tombstones, with a
\* stoken only those whose stoken id is larger
GetRemovedMemberships(user, since) ==
    {t \in removed : t.user = user /\
        (since # NoStoken => t.stoken > StokenGetByUID(since))}

---------------------------------------------------------------------------
(* Listings: ListCollections, ListMultiCollections, ListItems.  A response *)
(* row is <<primary key, largest stoken id the query joins to the row>>.   *)

LimitParams == {0, 1, 2}          \* the ?limit= parameter; 0: absent
SinceUIDs   == {NoStoken, StokenUID(6), <<"bad", 0>>}
TypeFilters == {{}, {"t1"}}

\* the handlers' parsing of ?limit=: only l > 0 replaces the default
ParseLimit(l) == IF l > 0 THEN l ELSE DefaultLimit

\* the repositories' `if limit <= 0 { limit = 50 }`
EffectiveLimit(limit) == IF limit <= 0 THEN DefaultLimit ELSE limit

\* a query that forgets its stoken filter
UnfilteredSince(stokenId, since) == TRUE

\* the stoken filter of the three queries: `stoken_id > ?`
ChangedSince(stokenId, since) == stokenId > since

\* stoken ids of the revisions of an item / of the items of a collection
ItemStokens(itemId) == {r.stoken : r \in {x \in revisions : x.item = itemId}}

CollectionStokens(col) ==
    UNION {ItemStokens(i.id) : i \in {x \in items : x.col = col}}

\* the member rows the collection queries join: the caller's, and with a
\* type filter only those of a listed collection type
JoinedMembers(user, types) ==
    {m \in members : m.user = user /\ (types = {} \/ m.ctype \in types)}

MemberStokens(user, types, col) ==
    {m.stoken : m \in {x \in JoinedMembers(user, types) : x.col = col}}

ItemRowOut(id) == <<id, Max(ItemStokens(id))>>

CollectionRowOut(user, types, col) ==
    <<col, Max(CollectionStokens(col) \cup MemberStokens(user, types, col))>>

\* ORDER BY django_collection.id over the joined rows, one per member row
RECURSIVE OrderByCollection(_)
OrderByCollection(ms) ==
    IF ms = {} THEN <<>>
    ELSE LET m == CHOOSE x \in ms :
                     \A y \in ms : x.col < y.col \/
                                   (x.col = y.col /\ x.id <= y.id)
         IN  <<m.col>> \o OrderByCollection(ms \ {m})

\* itemRepository.ListForCollection, the query before LIMIT: item ids
ItemQuery(col, filtered, since) ==
    SortAsc({i.id : i \in {x \in items :
        /\ x.col = col
        /\ filtered => \E st \in ItemStokens(x.id) : ChangedSince(st, since)}})

\* collectionRepository.ListForUser / ListByTypes, the query before LIMIT:
\* collection ids.  Only the stoken filter groups by collection.
CollectionQuery(user, types, filtered, since) ==
    IF ~filtered THEN OrderByCollection(JoinedMembers(user, types))
    ELSE SortAsc({c \in {m.col : m \in JoinedMembers(user, types)} :
           \/ ChangedSince(Max(CollectionStokens(c)), since)
           \/ ChangedSince(Max(MemberStokens(user, types, c)), since)})

\* a page that keeps the look-ahead row
PageWithLookAhead(rows, limit) == Take(rows, limit + 1)

\* `Limit(limit + 1)`, then `if len(rows) > limit { rows = rows[:limit] }`
Page(rows, limit) ==
    IF Len(Take(rows, limit + 1)) > limit
    THEN SubSeq(Take(rows, limit + 1), 1, limit)
    ELSE Take(rows, limit + 1)

PageDone(rows, limit) == ~(Len(Take(rows, limit + 1)) > limit)

\* One call of a listing up to the response rows: the access check of
\* ListItems, the stoken lookup, the query and the done flag.  The response
\* literals of the services set Data, Stoken and Done only, which leaves
\* RemovedMemberships empty.
ListResponse(sess, since) ==
    LET col  == CollectionGetByUID(sess.col)
        sid  == StokenGetByUID(since)
        filt == since # NoStoken
        lim  == EffectiveLimit(sess.limit)
        ids  == IF sess.kind = "items" THEN ItemQuery(col, filt, sid)
                ELSE CollectionQuery(sess.user, sess.types, filt, sid)
        out  == [k \in 1..Len(Page(ids, lim)) |->
                   IF sess.kind = "items" THEN ItemRowOut(Page(ids, lim)[k])
                   ELSE CollectionRowOut(sess.user, sess.types,
                                         Page(ids, lim)[k])]
        call == [sess EXCEPT !.calls = @ + 1, !.since = since,
                             !.start = IF sess.calls = 0 THEN since ELSE @,
                             !.emitted = @ \cup Range(sess.rows),
                             !.rows = <<>>, !.stoken = NoStoken,
                             !.done = FALSE, !.removedMemberships = {},
                             !.before = stokens]
    IN  IF sess.kind = "items" /\ (col = 0 \/ MemberRows(sess.user, col) = {})
        THEN [call EXCEPT !.err = "not_member"]
        ELSE IF sid = -1
        THEN [call EXCEPT !.err = "bad_stoken"]
        ELSE [call EXCEPT
                !.rows = out,
                !.done = PageDone(ids, lim),
                !.total = IF sess.calls = 0 THEN Len(ids) ELSE @,
                !.pc = IF Len(out) > 0 THEN "stok" ELSE "idle"]

ListFrame ==
    UNCHANGED <<wsvars, revisionRepo, authvars, chunkvars, dbvars, procs, wrSeq>>

\* the first call of the client's session is one of the MaxReqs requests
ListOpen ==
    /\ ~pg.open
    /\ reqSeq < MaxReqs
    /\ reqSeq' = reqSeq + 1

\* GET /collection/?stoken=&limit=
ListCollections ==
    /\ ListOpen
    /\ \E user \in Users, l \in LimitParams, since \in SinceUIDs :
         pg' = ListResponse([IdlePage EXCEPT !.open = TRUE,
                   !.kind = "collections", !.user = user,
                   !.limit = ParseLimit(l)], since)
    /\ ListFrame

\* POST /collection/list_multi/?stoken=&limit=
ListMultiCollections ==
    /\ ListOpen
    /\ \E user \in Users, l \in LimitParams, since \in SinceUIDs,
          types \in TypeFilters :
         pg' = ListResponse([IdlePage EXCEPT !.open = TRUE,
                   !.kind = "multi", !.user = user, !.types = types,
                   !.limit = ParseLimit(l)], since)
    /\ ListFrame

\* GET /collection/:uid/item/?stoken=&limit=
ListItems ==
    /\ ListOpen
    /\ \E user \in Users, cuid \in ColUIDs, l \in LimitParams,
          since \in SinceUIDs :
         pg' = ListResponse([IdlePage EXCEPT !.open = TRUE,
                   !.kind = "items", !.user = user, !.col = cuid,
                   !.limit = ParseLimit(l)], since)
    /\ ListFrame

\* `if len(rows) > 0 { newStoken, err = r.stokenRepo.Create(ctx) }`: the
\* row is inserted and committed at once; its uid goes into the response
ListCreateStoken ==
    /\ pg.pc = "stok"
    /\ stokenSeq' = NextStokenID(stokenSeq)
    /\ stokens' = stokens \cup {NextStokenID(stokenSeq)}
    /\ pg' = [pg EXCEPT !.pc = "idle",
                        !.stoken = StokenUID(NextStokenID(stokenSeq))]
    /\ UNCHANGED <<wsvars, revisionRepo, authvars, chunkvars, collections, items, revisions, members,
                   removed, invitations, memberSeq, procs, reqSeq, wrSeq>>

\* the client asks for the next page with the stoken it was handed
ListAgain ==
    /\ pg.open /\ pg.pc = "idle" /\ pg.err = "" /\ ~pg.done
    /\ pg.calls < MaxCalls
    /\ pg' = ListResponse(pg, pg.stoken)
    /\ UNCHANGED reqSeq
    /\ ListFrame

Listing ==
    \/ ListCollections
    \/ ListMultiCollections
    \/ ListItems
    \/ ListCreateStoken
    \/ ListAgain

---------------------------------------------------------------------------
(* ChunkService over FileStorage.  The file system is modelled by the      *)
(* content of each chunk file; os.Create truncates, io.Copy writes from    *)
(* offset 0.                                                               *)

\* a membership check that lets every user through
AnyUserReads(user, col) == TRUE

\* `if member == nil { return ErrNotMember }`
IsMember(user, col) == MemberRows(user, col) # {}

CollectionRow(id) == CHOOSE c \in collections : c.id = id

\* FileStorage.ChunkPath: user directory, collection uid, then the uid
\* split after its first two characters
ChunkPath(userID, collectionUID, chunkUID) ==
    IF Len(chunkUID) < 2
    THEN <<userID, collectionUID, chunkUID>>
    ELSE <<userID, collectionUID, SubSeq(chunkUID, 1, 2),
           SubSeq(chunkUID, 3, Len(chunkUID))>>

\* the path the chunk of request p is stored under
ProcChunkPath(p) ==
    ChunkPath(CollectionRow(procs[p].col).owner,
              CollectionRow(procs[p].col).uid, procs[p].chunkUID)

FileExists(path) == \E f \in files : f.path = path

FileData(path) == (CHOOSE f \in files : f.path = path).data

FileWrite(path, data) ==
    {f \in files : f.path # path} \cup {[path |-> path, data |-> data]}

\* a write of data at offset 0 over the old content
Overwrite(old, data) ==
    IF Len(data) >= Len(old) THEN data
    ELSE data \o SubSeq(old, Len(data) + 1, Len(old))

\* chunkRepository.GetByUID: the rows of (collection, uid)
ChunkGetByUID(col, uid) == {c \in chunks : c.col = col /\ c.uid = uid}

\* a request to the chunk store arrives
ChunkArrive(p) ==
    /\ procs[p].pc \in {"idle", "done"}
    /\ reqSeq < MaxChunkReqs
    /\ reqSeq' = reqSeq + 1

\* UploadChunk: collection lookup, member lookup and the CanWrite check
UploadChunk(p) ==
    /\ ChunkArrive(p)
    /\ \E user \in Users, cuid \in ColUIDs, uid \in ChunkUIDs,
          data \in Bodies :
        LET col  == CollectionGetByUID(cuid)
            proc == [IdleProc EXCEPT !.kind = "upload", !.user = user,
                                     !.col = col, !.chunkUID = uid,
                                     !.data = data]
        IN  procs' = [procs EXCEPT ![p] =
              IF col = 0 \/ MemberRows(user, col) = {}
              THEN RefuseAs("upload", "not_member", user, col)
              ELSE IF ~CanWrite(GetByUserAndCollection(user, col))
              THEN RefuseAs("upload", "no_write_access", user, col)
              ELSE [proc EXCEPT !.pc = "cget"]]
    /\ UNCHANGED <<wsvars, revisionRepo, authvars, chunkvars, dbvars, wrSeq, pg>>

\* UploadChunk, `existing, err := s.chunkRepo.GetByUID(...)`
ChunkCheckExisting(p) ==
    /\ procs[p].pc = "cget"
    /\ procs' = IF ChunkGetByUID(procs[p].col, procs[p].chunkUID) # {}
                THEN Finish(p, "chunk_exists")
                ELSE [procs EXCEPT ![p].pc = "ccreate"]
    /\ UNCHANGED <<wsvars, revisionRepo, authvars, chunkvars, dbvars, reqSeq, wrSeq, pg>>

\* SaveChunkFromReader, os.Create(path): the file exists and is empty
ChunkFileCreate(p) ==
    /\ procs[p].pc = "ccreate"
    /\ files' = FileWrite(ProcChunkPath(p), <<>>)
    /\ procs' = [procs EXCEPT ![p].pc = "ccopy"]
    /\ UNCHANGED <<wsvars, revisionRepo, authvars, chunks, dbvars, reqSeq, wrSeq, pg>>

\* SaveChunkFromReader, io.Copy(file, reader)
ChunkFileCopy(p) ==
    /\ procs[p].pc = "ccopy"
    /\ files' = FileWrite(ProcChunkPath(p),
                  Overwrite(IF FileExists(ProcChunkPath(p))
                            THEN FileData(ProcChunkPath(p)) ELSE <<>>,
                            procs[p].data))
    /\ procs' = [procs EXCEPT ![p].pc = "crow"]
    /\ UNCHANGED <<wsvars, revisionRepo, authvars, chunks, dbvars, reqSeq, wrSeq, pg>>

\* UploadChunk, s.chunkRepo.Create(chunk): ChunkFile carries a unique index.
ChunkInsert(p) ==
    /\ procs[p].pc = "crow"
    /\ IF \E c \in chunks : c.file = ProcChunkPath(p)
       THEN /\ procs' = Finish(p, "db_error")
            /\ UNCHANGED chunks
       ELSE /\ chunks' = chunks \cup
                 {[id |-> Cardinality(chunks) + 1, uid |-> procs[p].chunkUID,
                   col |-> procs[p].col, file |-> ProcChunkPath(p),
                   body |-> procs[p].data]}
            /\ procs' = Finish(p, "ok")
    /\ UNCHANGED <<wsvars, revisionRepo, authvars, files, dbvars, reqSeq, wrSeq, pg>>

\* The head of the reads of a collection's items: collection lookup and
\* member lookup
ReadHead(p, kind, user, cuid, uid, etag, chunkUID) ==
    /\ procs[p].pc \in {"idle", "done"}
    /\ reqSeq < (IF kind = "download" THEN MaxChunkReqs ELSE MaxReqs)
    /\ reqSeq' = reqSeq + 1
    /\ LET col  == CollectionGetByUID(cuid)
           proc == [IdleProc EXCEPT
                      !.kind = kind, !.user = user, !.col = col,
                      !.w = [NoWrite EXCEPT !.uid = uid, !.etag = etag],
                      !.chunkUID = chunkUID]
       IN  procs' = [procs EXCEPT ![p] =
             IF col = 0 \/ ~IsMember(user, col)
             THEN RefuseAs(kind, "not_member", user, col)
             ELSE [proc EXCEPT !.pc = "read"]]
    /\ UNCHANGED <<wsvars, revisionRepo, authvars, chunkvars, dbvars, wrSeq, pg>>

\* the request returns data
Return(p, code, out) == [Finish(p, code) EXCEPT ![p].out = out]

ReadFrame == UNCHANGED <<wsvars, revisionRepo, authvars, chunkvars, dbvars, reqSeq, wrSeq, pg>>

DownloadChunk(p) ==
    \E user \in Users, cuid \in ColUIDs, uid \in ChunkUIDs :
        ReadHead(p, "download", user, cuid, "", NoEtag, uid)

\* DownloadChunk, `chunk, err := s.chunkRepo.GetByUID(...)`
ChunkLookup(p) ==
    /\ procs[p].pc = "read" /\ procs[p].kind = "download"
    /\ procs' = IF ChunkGetByUID(procs[p].col, procs[p].chunkUID) = {}
                THEN Finish(p, "chunk_no_content")
                ELSE [procs EXCEPT ![p].pc = "dload"]
    /\ ReadFrame

\* FileStorage.LoadChunk: os.ReadFile, a missing file gives (nil, nil)
LoadChunk(p) ==
    /\ procs[p].pc = "dload"
    /\ procs' = Return(p, "ok", IF FileExists(ProcChunkPath(p))
                                THEN FileData(ProcChunkPath(p)) ELSE <<>>)
    /\ ReadFrame

\* GET /collection/:uid/item/:item_uid/
GetItemRequest(p) ==
    \E user \in Users, cuid \in ColUIDs, uid \in ItemUIDs :
        ReadHead(p, "get", user, cuid, uid, NoEtag, <<>>)

\* ItemService.GetItem after the member check: the item's id
GetItemReturn(p) ==
    /\ procs[p].pc = "read" /\ procs[p].kind = "get"
    /\ LET id == ItemGetByUID(items, procs[p].col, procs[p].w.uid)
       IN  procs' = IF id = 0 THEN Finish(p, "not_member")
                   ELSE Return(p, "ok", <<id>>)
    /\ ReadFrame

\* POST /collection/:uid/item/fetch_updates/ with one (uid, etag)
FetchUpdates(p) ==
    \E user \in Users, cuid \in ColUIDs, uid \in ItemUIDs,
       etag \in Etags \ {NoEtag} :
        ReadHead(p, "fetch", user, cuid, uid, etag, <<>>)

\* FetchUpdates, the loop: an item is returned when its etag differs
FetchUpdatesReturn(p) ==
    /\ procs[p].pc = "read" /\ procs[p].kind = "fetch"
    /\ LET id == ItemGetByUID(items, procs[p].col, procs[p].w.uid)
       IN  IF id = 0 THEN procs' = Return(p, "ok", <<>>)
           ELSE \E currentEtag \in getItemEtag(revisions, id) :
                  procs' = Return(p, "ok",
                             IF currentEtag # procs[p].w.etag THEN <<id>>
                             ELSE <<>>)
    /\ ReadFrame

\* ItemService.GetItemRevisions
GetItemRevisions(p) ==
    /\ procs[p].pc \in {"idle", "done"}
    /\ reqSeq < MaxReqs
    /\ reqSeq' = reqSeq + 1
    /\ \E user \in Users, cuid \in ColUIDs, uid \in ItemUIDs,
          limit \in {1, 2}, again \in BOOLEAN :
          LET last == procs[p]
              \* the client follows the iterator of its last response
              next == /\ again
                      /\ last.kind = "revisions"
                      /\ last.res = "ok"
                      /\ ~last.fin
                      /\ last.user = user
                      /\ last.col = CollectionGetByUID(cuid)
                      /\ last.w.uid = uid
                      /\ last.limit = limit
              col  == CollectionGetByUID(cuid)
              proc == [IdleProc EXCEPT
                         !.kind = "revisions", !.user = user, !.col = col,
                         !.w = [NoWrite EXCEPT !.uid = uid],
                         !.limit = limit,
                         !.iterator = IF next THEN last.iterator ELSE "",
                         !.seen = IF next THEN last.seen ELSE <<>>]
          IN  /\ again => next
              /\ procs' = [procs EXCEPT ![p] =
                    IF col = 0 \/ ~IsMember(user, col)
                    THEN RefuseAs("revisions", "not_member", user, col)
                    ELSE [proc EXCEPT !.pc = "read"]]
    /\ UNCHANGED <<wsvars, revisionRepo, authvars, chunkvars, dbvars, wrSeq, pg>>

\* The item lookup, revisionRepository.ListForItem(item.ID, limit), which
\* takes the first limit rows by id descending and is not given the
\* iterator, and the response: done when fewer rows than limit came back,
\* else the uid of the last row as iterator.  With a nil revisionRepo the
\* call panics.  seen is no part of the response: it records the rows the
\* client has been sent since it started paging.
GetItemRevisionsReturn(p) ==
    /\ procs[p].pc = "read" /\ procs[p].kind = "revisions"
    /\ LET id == ItemGetByUID(items, procs[p].col, procs[p].w.uid)
           RECURSIVE desc(_)
           desc(S) == IF S = {} THEN <<>>
                      ELSE <<Max(S)>> \o desc(S \ {Max(S)})
           rows == Take(desc({r.id : r \in {x \in revisions : x.item = id}}),
                        IF procs[p].limit <= 0 THEN DefaultLimit
                        ELSE procs[p].limit)
           done == Len(rows) < procs[p].limit
           lastUID == (CHOOSE r \in revisions : r.id = rows[Len(rows)]).uid
       IN  procs' = IF id = 0 THEN Finish(p, "not_member")
                   ELSE IF revisionRepo = "nil" THEN Finish(p, "panic")
                   ELSE [Return(p, "ok", rows) EXCEPT
                           ![p].user = procs[p].user,
                           ![p].col = procs[p].col,
                           ![p].w = procs[p].w,
                           ![p].limit = procs[p].limit,
                           ![p].fin = done,
                           ![p].iterator = IF ~done /\ Len(rows) > 0
                                           THEN lastUID ELSE "",
                           ![p].seen = procs[p].seen \o rows]
    /\ ReadFrame

Chunks(p) ==
    \/ UploadChunk(p)
    \/ ChunkCheckExisting(p)
    \/ ChunkFileCreate(p)
    \/ ChunkFileCopy(p)
    \/ ChunkInsert(p)
    \/ DownloadChunk(p)
    \/ ChunkLookup(p)
    \/ LoadChunk(p)

\* GET /collection/:collection_uid/: CollectionService.GetCollection is
\* collectionRepo.GetByUID and the handler answers with the row it returns,
\* not_member when there is none
GetCollection(p) ==
    /\ procs[p].pc \in {"idle", "done"}
    /\ reqSeq < MaxReqs
    /\ reqSeq' = reqSeq + 1
    /\ \E user \in Users, cuid \in ColUIDs :
          LET col == CollectionGetByUID(cuid)
          IN  procs' = [procs EXCEPT ![p] =
                IF col = 0
                THEN RefuseAs("getCollection", "not_member", user, col)
                ELSE [RefuseAs("getCollection", "ok", user, col)
                         EXCEPT !.out = <<col>>]]
    /\ UNCHANGED <<wsvars, revisionRepo, authvars, chunkvars, dbvars, wrSeq, pg>>

Reads(p) ==
    \/ GetCollection(p)
    \/ GetItemRequest(p)
    \/ GetItemReturn(p)
    \/ FetchUpdates(p)
    \/ FetchUpdatesReturn(p)
    \/ GetItemRevisions(p)
    \/ GetItemRevisionsReturn(p)

Membership(p) ==
    \/ AcceptInvitation(p)
    \/ MemberCreateStoken(p)
    \/ MemberInsert(p)
    \/ InvitationDelete(p)
    \/ LeaveCollection(p)
    \/ MemberDeleteStoken(p)
    \/ MemberDelete(p)
    \/ UpdateMemberAccess(p)
    \/ RemoveMember(p)
    \/ CreateCollection(p)
    \/ CollectionInsert(p)

Writer(p) ==
    \/ BatchItems(p)
    \/ TransactionItems(p)
    \/ NextItem(p)
    \/ ReturnNil(p)
    \/ ValidateEtag(p)
    \/ GetItem(p)
    \/ CreateOrUpdateItem(p)
    \/ RevisionCreateStoken(p)
    \/ RevisionMarkPrevious(p)
    \/ RevisionInsert(p)

---------------------------------------------------------------------------
(* Authentication: AuthService, the RequireAuth middleware and the         *)
(* handlers behind it.  Strings that the code compares or cuts are         *)
(* sequences of characters; a ciphertext names the key it was sealed with  *)
(* and a signature names the key pair and the message it was made over.    *)

RECURSIVE ToLower(_)
ToLower(s) ==
    LET lower(c) == IF c = "A" THEN "a"
                    ELSE IF c = "B" THEN "b"
                    ELSE IF c = "C" THEN "c" ELSE c
    IN  IF s = <<>> THEN <<>> ELSE <<lower(Head(s))>> \o ToLower(Tail(s))

\* strings.Split(host, ":")[0]
RECURSIVE SplitHost(_)
SplitHost(host) ==
    IF host = <<>> \/ Head(host) = ":" THEN <<>>
    ELSE <<Head(host)>> \o SplitHost(Tail(host))

\* a lookup that compares case and all
GetByExactUsername(username) == {u \in users : u.username = username}

GetByUsername(username) == {u \in users : u.username = ToLower(username)}

\* the challenge LoginChallenge seals for a user at time t; type is the
\* dynamic type the msgpack decoder will later give to the user id
LoginChallenge(user, t, type) ==
    [key |-> <<"key", user.salt>>,
     plain |-> [timestamp |-> [type |-> "int64", n |-> t],
                userId |-> [type |-> type, n |-> user.id]]]

validateLoginRequest(req, user, expectedAction) ==
    LET responseData == req.response
        challenge == responseData.challenge
        encKey == <<"key", user.salt>>
        handled == {"int64", "int32", "int", "uint64", "uint32", "uint",
                    "float64"}
        timestamp == challenge.plain.timestamp
        userID == challenge.plain.userId
        VerifySignature(pubkey, message, signature) ==
            signature.by = pubkey /\ signature.msg = message
    IN  IF challenge.key # encKey THEN "login_bad_signature"
        ELSE IF responseData.action # expectedAction THEN "wrong_action"
        ELSE IF timestamp.type \notin handled THEN "invalid_request"
        ELSE IF req.now - timestamp.n > ChallengeValidSeconds
             THEN "challenge_expired"
        ELSE IF userID.type \notin handled THEN "invalid_request"
        ELSE IF userID.n # user.id THEN "wrong_user"
        ELSE IF ~cfg.Debug
                /\ SplitHost(responseData.host) # SplitHost(req.host)
             THEN "wrong_host"
        ELSE IF ~VerifySignature(user.loginPubkey, responseData,
                                 req.signature)
             THEN "login_bad_signature"
        ELSE "ok"

\* The bodies a client can post to login and change_password now: a
\* response that names one of the given users, carries a challenge that LoginChallenge has
\* sealed (or bytes that are no challenge) and the host the client saw,
\* signed with some key pair over this response or over its twin for the
\* other action, sent to the server under one of its host names.
LoginRequests(names) ==
    LET challenges ==
            {NoRequest.response.challenge} \cup
            {LoginChallenge(u, t, type) :
                u \in users, t \in {0, now}, type \in {"int8", "uint64"}}
        responses ==
            {[username |-> n, challenge |-> c, host |-> h[2], action |-> a,
              loginPubkey |-> 2, encryptedContent |-> "e2"] :
                n \in names, c \in challenges,
                h \in {<<1, <<"h">> >>, <<1, <<"g">> >>,
                       <<2, <<"[", ":", ":", "2", "]">> >>},
                a \in {"login", "changePassword"}}
        other(a) == IF a = "login" THEN "changePassword" ELSE "login"
        sent(r) == IF r.host = <<"[", ":", ":", "2", "]">>
                   THEN <<"[", ":", ":", "1", "]", ":", "8">>
                   ELSE <<"h", ":", "8">>
    IN  {[response |-> r,
          signature |-> [by |-> k,
                         msg |-> IF own THEN r
                                 ELSE [r EXCEPT !.action = other(r.action)]],
          email |-> <<>>, salt |-> 0, host |-> sent(r), now |-> now] :
            r \in responses, k \in {1, 2}, own \in BOOLEAN}

\* POST /authentication/signup/: the request arrives and Signup looks the
\* username up.  clash records whether a user with this username or this
\* email, compared in lower case, existed when the request arrived.
Signup(p) ==
    /\ procs[p].pc \in {"idle", "done"}
    /\ reqSeq < MaxAuthReqs
    /\ \E username \in {<<"A">>, <<"c">>}, email \in {<<"A">>, <<"c">>} :
          LET req == [NoRequest EXCEPT !.response.username = username,
                                       !.response.loginPubkey = 1,
                                       !.response.encryptedContent = "e1",
                                       !.email = email, !.salt = 1]
              clash == \E u \in users : \/ u.username = ToLower(username)
                                        \/ u.email = ToLower(email)
          IN  procs' = [procs EXCEPT ![p] =
                  IF GetByUsername(username) # {}
                  THEN [Refuse("signup", "user_exists")
                           EXCEPT !.req = req, !.clash = clash]
                  ELSE [IdleProc EXCEPT !.kind = "signup", !.pc = "semail",
                                        !.req = req, !.clash = clash]]
    /\ reqSeq' = reqSeq + 1
    /\ UNCHANGED <<wsvars, revisionRepo, authvars, chunkvars, dbvars, wrSeq, pg>>

\* Signup: the lookup by email
SignupEmail(p) ==
    /\ procs[p].pc = "semail"
    /\ procs' = IF \E u \in users : u.email = ToLower(procs[p].req.email)
                THEN Finish(p, "user_exists")
                ELSE [procs EXCEPT ![p].pc = "ucreate"]
    /\ UNCHANGED <<wsvars, revisionRepo, authvars, chunkvars, dbvars, reqSeq, wrSeq,
                   pg>>

\* userRepository.Create: one transaction that inserts the user, with
\* username and email in lower case, and its UserInfo; both columns carry
\* a unique index
UserCreate(p) ==
    /\ procs[p].pc = "ucreate"
    /\ LET req == procs[p].req
           user == [id |-> userSeq + 1,
                    username |-> ToLower(req.response.username),
                    email |-> ToLower(req.email),
                    firstName |-> req.response.username,
                    loginPubkey |-> req.response.loginPubkey,
                    encryptedContent |-> req.response.encryptedContent,
                    salt |-> req.salt]
       IN  IF \E u \in users : \/ u.username = user.username
                               \/ u.email = user.email
           THEN /\ procs' = Finish(p, "db_error")
                /\ UNCHANGED users
           ELSE /\ users' = users \cup {user}
                /\ procs' = [procs EXCEPT ![p].pc = "tcreate",
                                          ![p].row = user]
    /\ userSeq' = userSeq + 1
    /\ UNCHANGED <<wsvars, revisionRepo, cfg, tokens, tokenSeq, now, loggedOut,
                   chunkvars, dbvars, reqSeq, wrSeq, pg>>

\* tokenRepository.Create at the end of Login and Signup; BeforeCreate
\* draws 20 random bytes for the key, a key no token carried before
TokenCreate(p) ==
    /\ procs[p].pc = "tcreate"
    /\ tokens' = tokens \cup
                   {[key |-> <<"k", tokenSeq + 1>>, user |-> procs[p].row.id]}
    /\ tokenSeq' = tokenSeq + 1
    /\ procs' = Finish(p, "ok")
    /\ UNCHANGED <<wsvars, revisionRepo, cfg, users, userSeq, now, loggedOut,
                   chunkvars, dbvars, reqSeq, wrSeq, pg>>

\* POST /authentication/login/: the request arrives, Login looks the user
\* up and validates the request
Login(p) ==
    /\ procs[p].pc \in {"idle", "done"}
    /\ reqSeq < MaxAuthReqs
    /\ \E req \in LoginRequests({<<"A">>, <<"z">>}) :
          LET found == GetByUsername(req.response.username)
              user == CHOOSE u \in found : TRUE
              code == IF found = {} THEN "user_not_found"
                      ELSE validateLoginRequest(req, user, "login")
          IN  procs' = [procs EXCEPT ![p] =
                  IF code # "ok" THEN Refuse("login", code)
                  ELSE [IdleProc EXCEPT !.kind = "login", !.pc = "tcreate",
                                        !.req = req, !.row = user]]
    /\ reqSeq' = reqSeq + 1
    /\ UNCHANGED <<wsvars, revisionRepo, authvars, chunkvars, dbvars, wrSeq, pg>>

\* A request to a route behind RequireAuth arrives: the middleware looks
\* the Authorization header up as a token key.
RequireAuth(p) ==
    /\ procs[p].pc \in {"idle", "done"}
    /\ reqSeq < MaxAuthReqs
    /\ \E kind \in {"logout", "changePassword", "collection"},
          key \in {<<"k", 1>>, <<"k", 2>>, <<"k", 3>>},
          tokenKey \in {<<>>, <<"k">>, <<"Token ", "k">>} :
          LET hdr == IF tokenKey = <<>> THEN <<>>
                     ELSE SubSeq(tokenKey, 1, Len(tokenKey) - 1) \o key
              found == {t \in tokens : t.key = hdr}
              token == CHOOSE t \in found : TRUE
          IN  procs' = [procs EXCEPT ![p] =
                  IF hdr = <<>> \/ found = {}
                  THEN [Refuse(kind, "invalid_token") EXCEPT !.hdr = hdr]
                  ELSE [IdleProc EXCEPT
                           !.kind = kind, !.pc = "authed", !.hdr = hdr,
                           !.user = token.user,
                           !.row = CHOOSE u \in users : u.id = token.user]]
    /\ reqSeq' = reqSeq + 1
    /\ UNCHANGED <<wsvars, revisionRepo, authvars, chunkvars, dbvars, wrSeq, pg>>

\* a logout that answers 204 and leaves the token row where it is
LogoutKeepsToken(p) ==
    /\ procs[p].pc = "authed"
    /\ procs[p].kind = "logout"
    /\ loggedOut' = loggedOut \cup {procs[p].hdr}
    /\ procs' = Finish(p, "ok")
    /\ UNCHANGED <<wsvars, revisionRepo, cfg, users, userSeq, tokens, tokenSeq, now,
                   chunkvars, dbvars, reqSeq, wrSeq, pg>>

\* AuthHandler.Logout: tokenRepository.Delete by the header's value
Logout(p) ==
    /\ procs[p].pc = "authed"
    /\ procs[p].kind = "logout"
    /\ tokens' = {t \in tokens : t.key # procs[p].hdr}
    /\ loggedOut' = loggedOut \cup {procs[p].hdr}
    /\ procs' = Finish(p, "ok")
    /\ UNCHANGED <<wsvars, revisionRepo, cfg, users, userSeq, tokenSeq, now,
                   chunkvars, dbvars, reqSeq, wrSeq, pg>>

\* a change of password that saves whatever the body carries
ChangePasswordUnchecked(p) ==
    /\ procs[p].pc = "authed"
    /\ procs[p].kind = "changePassword"
    /\ \E req \in LoginRequests({<<"A">>}) :
          /\ users' = {IF u.id # procs[p].row.id THEN u
                       ELSE [u EXCEPT
                               !.loginPubkey = req.response.loginPubkey,
                               !.encryptedContent =
                                   req.response.encryptedContent,
                               !.salt = procs[p].row.salt] : u \in users}
          /\ procs' = [Finish(p, "ok") EXCEPT ![p].req = req,
                                              ![p].row = procs[p].row]
    /\ UNCHANGED <<wsvars, revisionRepo, cfg, userSeq, tokens, tokenSeq, now,
                   loggedOut, chunkvars, dbvars, reqSeq, wrSeq, pg>>

\* AuthHandler.ChangePassword: validation against the user the middleware
\* loaded, then userRepository.UpdateUserInfo saves that user's UserInfo
\* with the new login key and content
ChangePassword(p) ==
    /\ procs[p].pc = "authed"
    /\ procs[p].kind = "changePassword"
    /\ \E req \in LoginRequests({<<"A">>}) :
          LET user == procs[p].row
              code == validateLoginRequest(req, user, "changePassword")
          IN  IF code # "ok"
              THEN /\ procs' = Finish(p, code)
                   /\ UNCHANGED users
              ELSE /\ users' =
                        {IF u.id # user.id THEN u
                         ELSE [u EXCEPT
                                 !.loginPubkey = req.response.loginPubkey,
                                 !.encryptedContent =
                                     req.response.encryptedContent,
                                 !.salt = user.salt] : u \in users}
                   /\ procs' = [Finish(p, "ok") EXCEPT ![p].req = req,
                                                       ![p].row = user]
    /\ UNCHANGED <<wsvars, revisionRepo, cfg, userSeq, tokens, tokenSeq, now,
                   loggedOut, chunkvars, dbvars, reqSeq, wrSeq, pg>>

\* a collection route behind RequireAuth: the handler runs as the user
\* the middleware put into the context
CollectionRequest(p) ==
    /\ procs[p].pc = "authed"
    /\ procs[p].kind = "collection"
    /\ procs' = [Finish(p, "ok") EXCEPT ![p].user = procs[p].user]
    /\ UNCHANGED <<wsvars, revisionRepo, authvars, chunkvars, dbvars, reqSeq, wrSeq,
                   pg>>

\* time passes, up to the last second a challenge sealed at 0 is valid
\* and one second beyond
Tick ==
    /\ now' \in {ChallengeValidSeconds, ChallengeValidSeconds + 1}
    /\ now' > now
    /\ UNCHANGED <<wsvars, revisionRepo, cfg, users, userSeq, tokens, tokenSeq,
                   loggedOut, chunkvars, dbvars, procs, reqSeq, wrSeq, pg>>

---------------------------------------------------------------------------
(* Subscription tickets and the WebSocket stream: SubscriptionHandler,     *)
(* WebSocketHandler and the Redis client.  A string built from a number    *)
(* is the sequence of its bytes.  generateTicketID draws 128 random bits;  *)
(* the ids it hands out are modelled as distinct.                          *)

\* everything but the stream state and the clock
restvars == <<revisionRepo, chunkvars, dbvars, procs, reqSeq, wrSeq, pg, cfg,
              users, userSeq, tokens, tokenSeq, loggedOut>>

\* `byte(userID)`: the low eight bits
Byte(n) == n % 256

\* `string(rune(id))`: the UTF-8 bytes of the code point id
RuneString(id) ==
    IF id < 128 THEN <<id>> ELSE <<192 + (id \div 64), 128 + (id % 64)>>

\* `"col." + string(rune(ticket.CollectionID))`
ChannelName(id) == <<99, 111, 108, 46>> \o RuneString(id)

\* a handler that passes the collection it looked up
LookedUpCollectionID(col) == col

\* the collection id GetTicket passes to CreateTicket:
\* `CreateTicket(ctx, user.ID, 0) // TODO: Get collection ID`
TicketCollectionID(col) == 0

\* WebSocketHandler.CreateTicket: the key is set in Redis when the client
\* is there and SetTicket succeeds, otherwise the ticket goes into the map
CreateTicket(id, userID, collectionID, setOk) ==
    IF redis = "active" /\ setOk
    THEN /\ rkeys' = rkeys \cup {[ticket |-> id, val |-> Byte(userID),
                                  exp |-> now + TicketTTL]}
         /\ UNCHANGED tickets
    ELSE /\ tickets' = tickets \cup
                {[id |-> id, UserID |-> userID,
                  CollectionID |-> collectionID, CreatedAt |-> now]}
         /\ UNCHANGED rkeys

\* POST /collection/:collection_uid/item/subscription-ticket/ behind
\* RequireAuth.  User ids grow with every signup: 257 is the first whose
\* low byte is the id of another user.
GetTicket ==
    /\ ticketSeq < MaxTickets
    /\ ticketSeq' = ticketSeq + 1
    /\ \E user \in {1, 3, 257}, cuid \in {"c1"}, setOk \in BOOLEAN :
         LET col == CollectionGetByUID(cuid)
         IN  /\ CreateTicket(ticketSeq + 1, user, TicketCollectionID(col),
                             setOk)
             /\ issued' = issued \cup
                   {[id |-> ticketSeq + 1, user |-> user, for |-> col,
                     col |-> TicketCollectionID(col)]}
    /\ UNCHANGED <<redis, conns, pubSeq, now, restvars>>

\* GET /ws/:ticket/ arrives: ValidateTicket asks Redis first if it is there
Handle(s) ==
    /\ conns[s].pc = "none"
    /\ \E t \in 1..MaxTickets :
         conns' = [conns EXCEPT ![s] =
            [@ EXCEPT !.ticket = t,
                      !.pc = IF redis = "active" THEN "rget" ELSE "mem"]]
    /\ UNCHANGED <<redis, rkeys, tickets, ticketSeq, issued, pubSeq, now,
                   restvars>>

\* the ticket of s as ValidateTicket returns it
Accept(s, userID, collectionID) ==
    [conns[s] EXCEPT !.pc = "upgrade", !.valid = TRUE, !.UserID = userID,
                     !.CollectionID = collectionID]

\* Client.GetAndDeleteTicket, `c.Get(ctx, key)`: an error or a missing
\* (or expired) key sends ValidateTicket to the map
GetAndDeleteTicket(s) ==
    /\ conns[s].pc = "rget"
    /\ \E ok \in BOOLEAN :
         LET live == {k \in rkeys : k.ticket = conns[s].ticket /\ now < k.exp}
         IN  conns' = [conns EXCEPT ![s] =
                IF ok /\ live # {}
                THEN [@ EXCEPT !.pc = "rdel",
                               !.val = (CHOOSE k \in live : TRUE).val]
                ELSE [@ EXCEPT !.pc = "mem"]]
    /\ UNCHANGED <<redis, rkeys, tickets, ticketSeq, issued, pubSeq, now,
                   restvars>>

\* Client.GetAndDeleteTicket, `_ = c.Delete(ctx, key)` and the return:
\* `else if userID > 0 { return &Ticket{UserID: userID} }`
DeleteTicket(s) ==
    /\ conns[s].pc = "rdel"
    /\ \E ok \in BOOLEAN :
         rkeys' = IF ok THEN {k \in rkeys : k.ticket # conns[s].ticket}
                  ELSE rkeys
    /\ conns' = [conns EXCEPT ![s] =
          IF conns[s].val > 0 THEN Accept(s, conns[s].val, 0)
          ELSE [@ EXCEPT !.pc = "mem"]]
    /\ UNCHANGED <<redis, tickets, ticketSeq, issued, pubSeq, now, restvars>>

\* ValidateTicket under ticketMutex: the lookup in the map, the expiry
\* check and the delete
ValidateTicket(s) ==
    /\ conns[s].pc = "mem"
    /\ LET found == {t \in tickets : t.id = conns[s].ticket}
           t == CHOOSE x \in found : TRUE
       IN  /\ tickets' = tickets \ found
           /\ conns' = [conns EXCEPT ![s] =
                 IF found = {} \/ now - t.CreatedAt > TicketTTL
                 THEN [@ EXCEPT !.pc = "refused"]
                 ELSE Accept(s, t.UserID, t.CollectionID)]
    /\ UNCHANGED <<redis, rkeys, ticketSeq, issued, pubSeq, now, restvars>>

\* upgrader.Upgrade, then the head of handleConnection: the subscription
\* and the forwarding goroutine
handleConnection(s) ==
    /\ conns[s].pc = "upgrade"
    /\ \E ok \in BOOLEAN :
         conns' = [conns EXCEPT ![s] =
            IF ~ok THEN [@ EXCEPT !.pc = "closed"]
            ELSE IF redis = "active" /\ conns[s].CollectionID > 0
            THEN [@ EXCEPT !.pc = "loop", !.fwd = "recv",
                           !.sub = ChannelName(conns[s].CollectionID)]
            ELSE [@ EXCEPT !.pc = "loop"]]
    /\ UNCHANGED <<redis, rkeys, tickets, ticketSeq, issued, pubSeq, now,
                   restvars>>

\* the forwarding goroutine takes the next message from msgChan and
\* enters conn.WriteMessage
ForwardNext(s) ==
    /\ conns[s].fwd = "recv"
    /\ conns[s].msgChan # <<>>
    /\ Len(conns[s].frames) < MaxFrames
    /\ conns' = [conns EXCEPT ![s] =
          [@ EXCEPT !.fwd = "write", !.fcur = Head(conns[s].msgChan),
                    !.msgChan = Tail(@)]]
    /\ UNCHANGED <<redis, rkeys, tickets, ticketSeq, issued, pubSeq, now,
                   restvars>>

\* One turn of a goroutine of handleConnection up to its next write.  The
\* loop of the handler: the ticker has fired and a ping is to be written,
\* or ReadMessage returns a message to echo, or it returns an error and the
\* handler returns, closing the connection and the subscription.
Goroutine(s) ==
    /\ \E g \in {"main", "fwd"}, ev \in {"tick", "msg", "err"} :
         IF g = "fwd" THEN ev = "tick" /\ ForwardNext(s)
         ELSE /\ conns[s].pc = "loop"
              /\ ev # "err" => Len(conns[s].frames) < MaxFrames
              /\ conns' = [conns EXCEPT ![s] =
                    IF ev = "err"
                    THEN [@ EXCEPT !.pc = "closed", !.sub = <<>>,
                                   !.msgChan = <<>>, !.fwd = "off"]
                    ELSE [@ EXCEPT !.pc = "write", !.cur =
                            IF ev = "tick" THEN [type |-> "ping", data |-> 0]
                            ELSE [type |-> "text", data |-> 5]]]
    /\ UNCHANGED <<redis, rkeys, tickets, ticketSeq, issued, pubSeq, now,
                   restvars>>

\* the forwarding goroutine's conn.WriteMessage returns
ForwardWritten(s) ==
    /\ conns[s].fwd = "write"
    /\ conns' = [conns EXCEPT ![s] =
          [@ EXCEPT !.frames = Append(@, [type |-> "binary",
                                          data |-> conns[s].fcur]),
                    !.fwd = "recv"]]
    /\ UNCHANGED <<redis, rkeys, tickets, ticketSeq, issued, pubSeq, now,
                   restvars>>

\* conn.WriteMessage returns: the frame is on the wire
WriteMessage(s) ==
    /\ \E g \in {"main", "fwd"} :
         IF g = "fwd" THEN ForwardWritten(s)
         ELSE /\ conns[s].pc = "write"
              /\ conns' = [conns EXCEPT ![s] =
                    [@ EXCEPT !.frames = Append(@, conns[s].cur),
                              !.pc = "loop"]]
    /\ UNCHANGED <<redis, rkeys, tickets, ticketSeq, issued, pubSeq, now,
                   restvars>>

\* Client.Publish by a peer of the broker on the channel of collection c,
\* named in decimal or as handleConnection names it.  Subscribe's goroutine
\* hands the payload to the msgChan of every subscription of the channel.
\* History: due collects what was published for the collection of the
\* stream's ticket while the stream was open.
Publish ==
    /\ redis = "active"
    /\ pubSeq < MaxPubs
    /\ pubSeq' = pubSeq + 1
    /\ \E c \in {1}, decimal \in BOOLEAN :
         LET name == IF decimal THEN <<99, 111, 108, 46, 48 + c>>
                     ELSE ChannelName(c)
         IN  conns' = [s \in Streams |->
               [conns[s] EXCEPT
                  !.msgChan = IF conns[s].sub = name THEN Append(@, 7) ELSE @,
                  !.due = IF /\ decimal
                             /\ conns[s].pc \in {"loop", "write"}
                             /\ \E i \in issued : i.id = conns[s].ticket
                                                  /\ i.for = c
                          THEN @ \cup {7} ELSE @]]
    /\ UNCHANGED <<redis, rkeys, tickets, ticketSeq, issued, now, restvars>>

\* time passes, up to the last second a ticket made at 0 is in the map
\* and one second beyond
Elapse ==
    /\ now' \in {TicketTTL, TicketTTL + 1}
    /\ now' > now
    /\ UNCHANGED <<wsvars, restvars>>

---------------------------------------------------------------------------
(* Specifications                                                          *)

Next == \E p \in Procs : Writer(p) \/ Membership(p)

Spec == Init /\ [][Next]_vars

\* one request goroutine next to one client paging through a listing
NextList == Writer("p1") \/ Membership("p1") \/ Listing

SpecList == Init /\ [][NextList]_vars

\* concurrent requests to the chunk store
NextChunk == \E p \in Procs : Chunks(p)

SpecChunk == Init /\ [][NextChunk]_vars

\* the reads of a collection's items next to members who leave and a
\* client listing the items of a collection
NextRead ==
    \/ \E p \in Procs :
          \/ Reads(p)
          \/ DownloadChunk(p)
          \/ ChunkLookup(p)
          \/ LoadChunk(p)
          \/ LeaveCollection(p)
          \/ MemberDeleteStoken(p)
          \/ MemberDelete(p)
    \/ ListItems
    \/ ListCreateStoken
    \/ ListAgain

SpecRead == Init /\ [][NextRead]_vars

\* concurrent requests to the authentication API and to routes behind
\* RequireAuth, while time passes
NextAuth ==
    \/ \E p \in Procs :
          \/ Signup(p)
          \/ SignupEmail(p)
          \/ UserCreate(p)
          \/ TokenCreate(p)
          \/ Login(p)
          \/ RequireAuth(p)
          \/ Logout(p)
          \/ ChangePassword(p)
          \/ CollectionRequest(p)
    \/ Tick

SpecAuth == InitAuth /\ [][NextAuth]_vars

\* ticket requests, stream requests and their connections, next to a peer
\* publishing on the broker, while time passes
NextStream ==
    \/ GetTicket
    \/ Publish
    \/ Elapse
    \/ \E s \in Streams :
          \/ Handle(s)
          \/ GetAndDeleteTicket(s)
          \/ DeleteTicket(s)
          \/ ValidateTicket(s)
          \/ handleConnection(s)
          \/ Goroutine(s)
          \/ WriteMessage(s)

\* REDIS_URL set and reachable, or not
InitStream ==
    InitTables /\ ~cfg.Debug /\ revisionRepo = "nil"
    /\ redis \in {"nil", "active"}

SpecStream == InitStream /\ [][NextStream]_vars

\* the Go scheduler runs every goroutine that can run: the forwarding
\* goroutine receives what is in msgChan and a started write returns
SpecStreamLive ==
    /\ SpecStream
    /\ \A s \in Streams : /\ WF_vars(ForwardNext(s))
                          /\ WF_vars(WriteMessage(s))

---------------------------------------------------------------------------
(* Properties                                                              *)

EtagTransaction(p) ==
    /\ procs[p].pc = "done"
    /\ procs[p].kind = "transaction"
    /\ procs[p].nw = 1
    /\ procs[p].first.uid # ""
    /\ procs[p].res # "db_error"

WrongEtagPersistsNothing ==
    \A p \in Procs :
      (/\ procs[p].pc = "done" /\ procs[p].kind = "transaction"
       /\ procs[p].res = "wrong_etag")
      => procs[p].nd = 0

\* the rows of the three sync-visible tables that reference stoken id st
StokenOwners(revs, mems, rems, st) ==
    Cardinality({r \in revs : r.stoken = st})
    + Cardinality({m \in mems : m.stoken = st})
    + Cardinality({t \in rems : t.stoken = st})

\* the stoken ids of the revision, member and removed-member rows that a
\* step commits
CommittedMutationStokens ==
    {r.stoken : r \in {x \in revisions' : x.id \notin {o.id : o \in revisions}}}
    \cup {m.stoken : m \in members' \ members}
    \cup {t.stoken : t \in removed' \ removed}

WriteAppendsCurrentRevision ==
    [][\A p \in Procs :
         (procs[p].pc \in {"save", "ins"} /\ procs'[p].pc = "next")
         => LET id == ItemGetByUID(items', procs[p].col, procs[p].w.uid)
            IN  /\ id # 0
                /\ ItemRow(items', id).version = procs[p].w.version
                /\ getItemEtag(revisions', id) = {procs[p].w.cuid}]_vars

\* the largest stoken id among the rows of the last response
PageMaxStoken == Max({pg.rows[k][2] : k \in 1..Len(pg.rows)})

\* C7: a listing allocates no Stoken: when it emits rows, the stoken it
\* returns identifies a Stoken row that existed before the query ran.
ListingReturnsExistingStoken ==
    (pg.open /\ pg.pc = "idle" /\ Len(pg.rows) > 0)
    => StokenGetByUID(pg.stoken) \in pg.before

\* C8: when a listing emits at least one row, the stoken it returns is the
\* uid of the Stoken with the largest id among the rows of the page.
ListingReturnsPageMax ==
    (pg.open /\ pg.pc = "idle" /\ Len(pg.rows) > 0)
    => pg.stoken = StokenUID(PageMaxStoken)

\* C9: a listing with limit N carries at most N rows, and a call that
\* follows a done = false response with the returned stoken returns none of
\* the rows emitted before it.
PageWithinLimitAndFresh ==
    pg.open =>
      /\ Len(pg.rows) <= pg.limit
      /\ Range(pg.rows) \cap pg.emitted = {}

\* a second call, after a first page that was not the last, returns rows
SecondPageEmitted ==
    /\ pg.pc = "idle" /\ pg.calls = 2
    /\ Cardinality(pg.emitted) = pg.limit
    /\ Len(pg.rows) > 0

\* C10: calling a listing again and again with the returned stoken, over
\* tables no write changes meanwhile, meets done = true within
\* ceil(total / limit) + 1 calls, total being the rows the query matched.
DoneWithinBound ==
    (/\ pg.open /\ pg.pc = "idle" /\ pg.err = "" /\ pg.quiet
     /\ pg.calls >= CeilDiv(pg.total, pg.limit) + 1)
    => pg.done

\* a listing of more rows than one page holds has come to done = true
PagedListingDone ==
    /\ pg.pc = "idle" /\ pg.quiet /\ pg.done
    /\ pg.total > pg.limit
    /\ pg.calls = 2

\* C11: a listing that emits no row returns the caller's sinceStoken
\* unchanged, and no stoken when the caller supplied none.
EmptyListingKeepsSince ==
    (pg.open /\ pg.pc = "idle" /\ pg.err = "" /\ Len(pg.rows) = 0)
    => pg.stoken = pg.since

\* the largest stoken id among the revisions of the items of a collection
\* and among all of its members
CollectionMaxStoken(col) ==
    Max(CollectionStokens(col) \cup {m.stoken : m \in {x \in members : x.col = col}})

\* the collection ids of the response rows of the call a step makes
ListedNow == {pg'.rows[k][1] : k \in 1..Len(pg'.rows)}

\* a step that answers one call of GET /collection/
CollectionCall ==
    /\ pg'.calls = pg.calls + 1
    /\ pg'.kind = "collections"
    /\ pg'.err = ""

\* C12: a collection listing with sinceStoken s returns a collection the
\* caller is a member of if and only if the collection's max stoken id, taken
\* over the revisions of its items and over all of its members, is larger
\* than the id of s (a page that is not the last returns a part of them).
ChangedCollectionsListed ==
    [][(CollectionCall /\ pg'.since # NoStoken)
       => LET changed == {c \in {m.col : m \in {x \in members :
                                              x.user = pg'.user}} :
                            CollectionMaxStoken(c) > StokenGetByUID(pg'.since)}
          IN  /\ ListedNow \subseteq changed
              /\ pg'.done => changed \subseteq ListedNow]_vars

\* C13: the response of a collection listing carries in removedMemberships
\* every removed-member tombstone of the caller whose stoken id is larger
\* than the id of sinceStoken, all of them when none was given.
RemovedMembershipsListed ==
    [][CollectionCall
       => pg'.removedMemberships
            = GetRemovedMemberships(pg'.user, pg'.since)]_vars

\* the removed-member tombstones of a user for a collection
Tombstones(rems, user, col) == {t \in rems : t.user = user /\ t.col = col}

\* C14: for every (user, collection) pair, in every reachable state, the
\* number of member rows plus the number of removed-member tombstones is at
\* most one.
MemberOrTombstoneUnique ==
    \A m \in members \cup removed :
      Cardinality(MemberRows(m.user, m.col))
      + Cardinality(Tombstones(removed, m.user, m.col)) <= 1

\* a step in which request p of the given kind returns nil
Succeeds(p, kind) ==
    /\ procs'[p] # procs[p]
    /\ procs'[p].kind = kind
    /\ procs'[p].pc = "done"
    /\ procs'[p].res = "ok"

\* C15: when removeMember(collection, username) succeeds for an admin
\* caller, the target has no member row and has a tombstone that carries a
\* Stoken allocated by the operation.
RemoveMemberRemoves ==
    [][\A p \in Procs :
         (/\ Succeeds(p, "remove")
          /\ MemberRows(procs'[p].username, procs'[p].col) # {})
         => /\ \A m \in members' :
                 ~(m.user = procs'[p].username /\ m.col = procs'[p].col)
            /\ \E t \in Tombstones(removed', procs'[p].username,
                                    procs'[p].col) :
                 t.stoken \in stokens' \ stokens]_vars

\* C16: from its creation onward the owner of a collection has a member row
\* for it with access level admin.
OwnerIsAdminMember ==
    \A c \in collections :
      \E m \in MemberRows(c.owner, c.id) : IsAdmin(m)

\* C17: acceptInvitation creates the member and deletes the invitation as
\* one atomic unit: in no reachable state does the member created by an
\* accept exist while the accepted invitation is still present.
AcceptIsAtomic ==
    \A i \in invitations, m \in members \ InitMembers :
      ~(/\ m.user = i.user
        /\ \E f \in members : f.id = i.fromMember /\ f.col = m.col)

\* C18: when updateMemberAccess(collection, username, newLevel) succeeds
\* for an admin caller, the target's member row has access level newLevel
\* and a stoken id that refers to a Stoken allocated by the operation.
UpdateMemberAccessUpdates ==
    [][\A p \in Procs :
         (/\ Succeeds(p, "update")
          /\ MemberRows(procs'[p].username, procs'[p].col) # {})
         => \E m \in members' :
               /\ m.user = procs'[p].username /\ m.col = procs'[p].col
               /\ m.level = procs'[p].newAccessLevel
               /\ m.stoken \in stokens' \ stokens]_vars

\* C19: a leave request made by the owner of the collection always fails
\* with ErrAdminRequired and leaves the membership rows unchanged.
OwnerCannotLeave ==
    [][\A p \in Procs :
         (/\ procs'[p] # procs[p]
          /\ procs'[p].kind = "leave"
          /\ procs'[p].byOwner)
         => /\ procs'[p].pc = "done"
            /\ procs'[p].res = "admin_access_required"
            /\ UNCHANGED <<members, removed>>]_vars

\* C20: a transaction request whose deps.stoken resolves to a stoken id
\* smaller than the collection's max stoken id fails with ErrStaleStoken
\* and writes nothing.
StaleDepsRejected ==
    [][\A p \in Procs :
         (/\ procs[p].kind = "transaction"
          /\ procs[p].pc # "done" /\ procs'[p].pc = "done"
          /\ procs[p].deps # NoStoken
          /\ StokenGetByUID(procs[p].deps) >= 0
          /\ StokenGetByUID(procs[p].deps) < CollectionMaxStoken(procs[p].col))
         => /\ procs'[p].res = "stale_stoken"
            /\ procs'[p].nd = 0]_vars

\* a step in which request p of one of the given kinds runs its head
Arrives(p, kinds) ==
    /\ procs[p].pc \in {"idle", "done"}
    /\ procs'[p] # procs[p]
    /\ procs'[p].kind \in kinds

\* C21: a batch or transaction request by a user whose member row for the
\* collection is readOnly fails with no_write_access, one by a user without
\* a member row with not_member, and neither persists an item, a revision
\* or a stoken.
ReadOnlyCannotWrite ==
    [][\A p \in Procs :
         Arrives(p, {"batch", "transaction"})
         => LET rows == MemberRows(procs'[p].user, procs'[p].col)
            IN  /\ rows = {}
                   => /\ procs'[p].pc = "done"
                      /\ procs'[p].res = "not_member"
                /\ (\E m \in rows : m.level = AccessLevelReadOnly)
                   => /\ procs'[p].pc = "done"
                      /\ procs'[p].res = "no_write_access"
                /\ procs'[p].pc = "done"
                   => UNCHANGED <<items, revisions, stokens, stokenSeq>>]_vars

\* a write request of a read-only member has been refused
ReadOnlyRefused ==
    \E p \in Procs :
      /\ procs[p].kind \in {"batch", "transaction"}
      /\ procs[p].res = "no_write_access"
      /\ \E m \in MemberRows(procs[p].user, procs[p].col) :
            m.level = AccessLevelReadOnly

ReadKinds == {"get", "fetch", "revisions", "download"}

\* C22: a read of the items of a collection (item list, single item,
\* fetch_updates, revisions, chunk download) by a user who has no member
\* row for the collection, a user who left included, fails with not_member
\* and returns no item data.
NonMemberCannotRead ==
    [][/\ \A p \in Procs :
            (/\ Arrives(p, ReadKinds)
             /\ MemberRows(procs'[p].user, procs'[p].col) = {})
            => /\ procs'[p].pc = "done"
               /\ procs'[p].res = "not_member"
               /\ procs'[p].out = <<>>
       /\ (/\ pg'.calls = pg.calls + 1
           /\ pg'.kind = "items"
           /\ MemberRows(pg'.user, CollectionGetByUID(pg'.col)) = {})
          => /\ pg'.err = "not_member"
             /\ pg'.rows = <<>>]_vars

\* a user who left a collection has been refused a read of its items
LeaverRefused ==
    \E p \in Procs :
      /\ procs[p].kind \in ReadKinds
      /\ procs[p].pc = "done" /\ procs[p].res = "not_member"
      /\ MemberRows(procs[p].user, procs[p].col) = {}
      /\ Tombstones(removed, procs[p].user, procs[p].col) # {}

\* a step in which the upload request p returns
UploadReturns(p) ==
    /\ procs[p].kind = "upload"
    /\ procs[p].pc # "done"
    /\ procs'[p].pc = "done"

\* C23: for any (collection, chunk uid), over any sequence or interleaving
\* of uploads, an upload succeeds exactly once: the upload that finds no
\* chunk of that uid succeeds, every other one is rejected with
\* ErrChunkExists.
UploadOnce ==
    [][\A p \in Procs :
         UploadReturns(p)
         => procs'[p].res =
              IF ChunkGetByUID(procs[p].col, procs[p].chunkUID) = {}
              THEN "ok" ELSE "chunk_exists"]_vars

\* C24: once an upload of a chunk has succeeded, every later download of
\* it returns exactly the bytes of that first successful upload, whatever
\* further uploads with the same uid are attempted.
DownloadReturnsFirstUpload ==
    [][\A p \in Procs :
         (procs[p].pc = "dload" /\ procs'[p].pc = "done")
         => \A c \in ChunkGetByUID(procs[p].col, procs[p].chunkUID) :
               procs'[p].out = c.body]_vars

\* C25: an upload with a zero-length body (of a chunk that does not exist
\* yet) is rejected with ErrChunkNoContent and creates neither a chunk row
\* nor stored content.
EmptyUploadRejected ==
    [][\A p \in Procs :
         (/\ procs[p].kind = "upload" /\ procs[p].pc # "done"
          /\ procs[p].data = <<>>
          /\ ChunkGetByUID(procs[p].col, procs[p].chunkUID) = {}
          /\ procs'[p] # procs[p])
         => /\ UNCHANGED <<chunks, files>>
            /\ procs'[p].pc = "done"
               => procs'[p].res = "chunk_no_content"]_vars

---------------------------------------------------------------------------
(* The authentication API                                                  *)

\* the bracketed address at the head of an authority such as [::1]:8
RECURSIVE Bracketed(_)
Bracketed(host) ==
    IF host = <<>> THEN <<>>
    ELSE IF Head(host) = "]" THEN <<"]">>
    ELSE <<Head(host)>> \o Bracketed(Tail(host))

\* a host name or address without its port
HostWithoutPort(host) ==
    IF host # <<>> /\ Head(host) = "[" THEN Bracketed(host)
    ELSE SplitHost(host)

\* C26: login creates a token only if every check has passed: the
\* challenge decrypts under the key derived from the user's salt, the
\* action is "login", the challenge is not older than
\* ChallengeValidSeconds, it names the user that was looked up, the host of
\* the response is the host of the request, ports aside, unless DEBUG is
\* set, and the signature over the response verifies with the user's
\* loginPubkey.
TokenOnlyAfterChecks ==
    [][\A p \in Procs :
          (/\ procs[p].kind = "login"
           /\ procs[p].pc = "tcreate"
           /\ procs'[p].pc = "done"
           /\ tokens' # tokens)
          => LET req == procs[p].req
                 user == procs[p].row
                 challenge == req.response.challenge
             IN  /\ challenge.key = <<"key", user.salt>>
                 /\ req.response.action = "login"
                 /\ req.now - challenge.plain.timestamp.n
                        <= ChallengeValidSeconds
                 /\ challenge.plain.userId.n = user.id
                 /\ \/ cfg.Debug
                    \/ HostWithoutPort(req.response.host)
                          = HostWithoutPort(req.host)
                 /\ req.signature.by = user.loginPubkey
                 /\ req.signature.msg = req.response]_vars

TokenPrefixStripped ==
    [][\A p \in Procs : \A t \in tokens :
          (/\ Arrives(p, {"collection"})
           /\ procs'[p].hdr = <<"Token ">> \o t.key)
          => /\ procs'[p].pc = "authed"
             /\ procs'[p].user = t.user]_vars

\* C29: once a logout made with a token key has succeeded, no token with
\* that key exists, and every request behind RequireAuth that arrives
\* later and presents the key is refused with invalid_token.
LoggedOutTokenRejected ==
    [][/\ \A t \in tokens' : t.key \notin loggedOut'
       /\ \A p \in Procs : \A key \in loggedOut :
             (/\ Arrives(p, {"logout", "changePassword", "collection"})
              /\ procs'[p].hdr \in {key, <<"Token ">> \o key})
             => /\ procs'[p].pc = "done"
                /\ procs'[p].res = "invalid_token"]_vars

LoggedOutThenRefused ==
    \E p \in Procs :
        /\ procs[p].pc = "done"
        /\ procs[p].res = "invalid_token"
        /\ procs[p].hdr = <<"k", 1>>
        /\ procs[p].hdr \in loggedOut

\* C30: a signup that arrives when a user exists whose username or whose
\* email is the same, compared without regard to case, is refused with
\* user_exists and creates no user and no token.
DuplicateSignupRejected ==
    [][\A p \in Procs :
          (/\ procs'[p].kind = "signup"
           /\ procs'[p].clash
           /\ procs'[p] # procs[p])
          => /\ users' = users
             /\ tokens' = tokens
             /\ procs'[p].pc = "done" => procs'[p].res = "user_exists"]_vars

CaseVariantRefused ==
    \E p \in Procs :
        /\ procs[p].kind = "signup"
        /\ procs[p].pc = "done"
        /\ procs[p].res = "user_exists"
        /\ procs[p].clash
        /\ procs[p].req.response.username = <<"A">>
        /\ \E u \in users : u.username = <<"a">>

---------------------------------------------------------------------------
(* Item writes, revisions and single reads                                 *)

\* C36: a write of a transaction that carries an etag for an item uid that
\* the collection does not hold is rejected with wrong_etag, and no item is
\* created.
EtagForMissingItemRejected ==
    [][\A p \in Procs :
          (/\ procs[p].pc = "etag"
           /\ procs'[p] # procs[p]
           /\ ItemGetByUID(items, procs[p].col, procs[p].w.uid) = 0)
          => /\ procs'[p].pc = "done"
             /\ procs'[p].res = "wrong_etag"
             /\ items' = items]_vars

CollectionOnlyForMembers ==
    [][\A p \in Procs :
          (/\ Arrives(p, {"getCollection"})
           /\ ~\E m \in members : /\ m.user = procs'[p].user
                                  /\ m.col = procs'[p].col)
          => /\ procs'[p].res = "not_member"
             /\ procs'[p].out = <<>>]_vars

---------------------------------------------------------------------------
(* Listings followed to the end                                            *)

\* the rows the session's query matches without a stoken filter
MatchedRows ==
    IF pg.kind = "items"
    THEN Range(ItemQuery(CollectionGetByUID(pg.col), FALSE, 0))
    ELSE Range(CollectionQuery(pg.user, pg.types, FALSE, 0))

\* the primary keys of the rows the session has been handed so far
HandedOut == {r[1] : r \in pg.emitted \cup Range(pg.rows)}

\* C34: a listing started with the empty stoken and followed with the
\* returned stokens until done = true, over tables no write changes
\* meanwhile, has emitted every row the query matched.
ListingEmitsEveryRow ==
    (/\ pg.open /\ pg.pc = "idle" /\ pg.err = "" /\ pg.quiet
     /\ pg.start = NoStoken /\ pg.done)
    => MatchedRows \subseteq HandedOut

---------------------------------------------------------------------------
(* Subscription tickets and streams                                        *)

\* the streams whose request was let in with ticket t
AcceptedWith(t) == {s \in Streams : conns[s].valid /\ conns[s].ticket = t}

\* C31: a ticket is accepted by the stream endpoint at most once, with the
\* process-local map and with the external key/value store alike, whether
\* the attempts come one after the other or at the same time.
TicketAcceptedOnce ==
    \A t \in 1..MaxTickets : Cardinality(AcceptedWith(t)) <= 1

\* C32: the ticket a stream request consumes carries the user id and the
\* collection id CreateTicket was called with, whichever store held it.
ConsumedTicketYieldsPair ==
    \A s \in Streams :
       conns[s].valid =>
          \E i \in issued : /\ i.id = conns[s].ticket
                            /\ conns[s].UserID = i.user
                            /\ conns[s].CollectionID = i.col

\* C39: every ticket handed out for a collection went to a user who has a
\* member row for that collection.
TicketOnlyForMembers ==
    \A i \in issued : MemberRows(i.user, i.for) # {}

PublishedIsForwarded ==
    \A s \in Streams :
       (7 \in conns[s].due)
          ~> (\/ [type |-> "binary", data |-> 7] \in Range(conns[s].frames)
              \/ conns[s].pc = "closed")

=============================================================================
